---- MODULE Spec2Model ----
(***************************************************************************)
(* A model of linkcheckbot: the filter-rule engine of                      *)
(* src/service/filtering.py (parser, modifier matcher, Rule and RuleSet    *)
(* evaluation) and the link-checking pipeline of                           *)
(* src/service/link_checker.py (request capture, report builder, memoized  *)
(* check, request loop, ruleset listener).                                 *)
(*                                                                         *)
(* Strings are sequences of tokens.  A token is one character of the text  *)
(* ("@", "#", "$", ...) or an atomic word (a letter such as "a", or a      *)
(* modifier name such as "important") that contains none of the characters *)
(* the code looks for.  Optional[str] is a token sequence or NoneVal.      *)
(*                                                                         *)
(* LinkChecker.__check_link is wrapped by py-memoize's memoize (lines      *)
(* 100-104).  The wrapper is modelled as the library behaves under that    *)
(* configuration: entries built by ProvidedLifeSpanCacheEntryBuilder with  *)
(* expire_after = MAX_CACHE_AGE and the default update_after of 10         *)
(* minutes, one refresh per key at a time, a failed call stored nowhere    *)
(* and re-raised, the least recently written key released by a task        *)
(* scheduled after a write that exceeds the capacity (256 in the code,     *)
(* scaled to the number of URLs of the model).  Left out: the 5 minute     *)
(* timeout of the in-progress mark (a navigation is taken to end before    *)
(* it).                                                                    *)
(*                                                                         *)
(* An exception that leaves main's gather ends the process: crashed.       *)
(***************************************************************************)
EXTENDS Integers, Sequences, FiniteSets, TLC

\* ------------------------------------------------------------------------
\* str helpers (Python str methods on token sequences)
\* ------------------------------------------------------------------------

\* Python None for Optional[str] fields: a sequence no text can produce.
NoneVal == <<"<None>">>

Take(s, n) == SubSeq(s, 1, n)

Drop(s, n) == SubSeq(s, n + 1, Len(s))

\* s.startswith(p)
StartsWith(s, p) == Len(s) >= Len(p) /\ SubSeq(s, 1, Len(p)) = p

\* s.endswith(p)
EndsWith(s, p) == Len(s) >= Len(p) /\ SubSeq(s, Len(s) - Len(p) + 1, Len(s)) = p

OccursAt(s, p, i) == i >= 1 /\ i + Len(p) - 1 <= Len(s) /\ SubSeq(s, i, i + Len(p) - 1) = p

\* p in s
Contains(s, p) == \E i \in 1..(Len(s) + 1) : OccursAt(s, p, i)

\* s.find(p) + 1, for p in s
Find(s, p) == CHOOSE i \in 1..(Len(s) + 1) : OccursAt(s, p, i) /\ \A j \in 1..(i - 1) : ~OccursAt(s, p, j)

\* s.split(p, maxsplit=1)
SplitOnce(s, p) ==
    IF Contains(s, p)
    THEN <<Take(s, Find(s, p) - 1), Drop(s, Find(s, p) + Len(p) - 1)>>
    ELSE <<s>>

RECURSIVE Split(_, _)
\* s.split(c) for a one-character separator c
Split(s, c) ==
    IF Contains(s, <<c>>)
    THEN <<Take(s, Find(s, <<c>>) - 1)>> \o Split(Drop(s, Find(s, <<c>>)), c)
    ELSE <<s>>

RECURSIVE LStrip(_)
LStrip(s) == IF s # <<>> /\ Head(s) = " " THEN LStrip(Tail(s)) ELSE s

RECURSIVE RStrip(_)
RStrip(s) == IF s # <<>> /\ s[Len(s)] = " " THEN RStrip(Take(s, Len(s) - 1)) ELSE s

\* line.strip(" \r\n\t")
Strip(s) == LStrip(RStrip(s))

\* ------------------------------------------------------------------------
\* Compiled patterns (re.compile / Pattern.search) over the token alphabet
\* ------------------------------------------------------------------------

\* The characters [a-z0-9-] of the model's alphabet.
Letters == {"a", "b", "h", "x"}

Atom(k, c) == [k |-> k, c |-> c]

\* re.compile raised
ReError == <<<<Atom("ERROR", "")>>>>

\* [^a-zA-Z0-9-_.%]
IsSeparatorChar(c) == c \notin Letters /\ c \notin {"-", "_", ".", "%"}

RECURSIVE MatchAt(_, _, _)
\* The atoms match u from position i on (to any end position).
MatchAt(atoms, u, i) ==
    IF atoms = <<>> THEN TRUE
    ELSE LET a == Head(atoms)
             rest == Tail(atoms)
         IN CASE a.k = "LIT" -> i <= Len(u) /\ u[i] = a.c /\ MatchAt(rest, u, i + 1)
              [] a.k = "ANYCHAR" -> i <= Len(u) /\ MatchAt(rest, u, i + 1)
              [] a.k = "ANY" -> \E j \in i..(Len(u) + 1) : MatchAt(rest, u, j)
              [] a.k = "SEP" -> \/ i <= Len(u) /\ IsSeparatorChar(u[i]) /\ MatchAt(rest, u, i + 1)
                                \/ i = Len(u) + 1 /\ MatchAt(rest, u, i)
              [] a.k = "START" -> i = 1 /\ MatchAt(rest, u, i)
              [] a.k = "SCHEME" -> i = 1 /\ \E j \in 1..(Len(u) - 2) :
                                        /\ SubSeq(u, j, j + 2) = <<":", "/", "/">>
                                        /\ MatchAt(rest, u, j + 3)
              [] a.k = "END" -> i = Len(u) + 1 /\ MatchAt(rest, u, i)
              [] OTHER -> FALSE

\* pattern.search(u) is not None; a pattern is a sequence of alternatives
Search(pattern, u) ==
    \E k \in 1..Len(pattern) : \E i \in 1..(Len(u) + 1) : MatchAt(pattern[k], u, i)

\* ------------------------------------------------------------------------
\* MatchResult, Action
\* ------------------------------------------------------------------------

\* MatchResult.from_bool
from_bool(value) == IF value THEN "MATCH" ELSE "NO_MATCH"

invert_swapped(value) ==
    IF value \in {"MATCH", "OVERRIDE"} THEN "MATCH"
    ELSE IF value = "NO_MATCH" THEN "NO_MATCH"
    ELSE "IGNORE"

\* MatchResult.invert
invert(value) ==
    IF value \in {"MATCH", "OVERRIDE"} THEN "NO_MATCH"
    ELSE IF value = "NO_MATCH" THEN "MATCH"
    ELSE "IGNORE"

\* ------------------------------------------------------------------------
\* Modifier
\* ------------------------------------------------------------------------

\* A request as Modifier and Rule read it: request.url, documentURL,
\* request.isSameSite (Optional[bool]: "True", "False" or "None") and type.
RequestInfo(url, documentURL, isSameSite, type) ==
    [url |-> url, documentURL |-> documentURL, isSameSite |-> isSameSite, type |-> type]

Modifier(name, value) == [name |-> name, value |-> value]

\* modifier_aliases.get(name, name)
modifier_aliases(name) ==
    CASE name = <<"frame">> -> <<"subdocument">>
      [] name = <<"ghide">> -> <<"generichide">>
      [] name = <<"~", "third-party">> -> <<"1p">>
      [] name = <<"third-party">> -> <<"3p">>
      [] name = <<"stylesheet">> -> <<"css">>
      [] name = <<"xmlhttprequest">> -> <<"xhr">>
      [] OTHER -> name

\* name.replace("-", "") on the words of the alphabet that hold a hyphen
RemoveHyphens(name) ==
    [i \in 1..Len(name) |->
        CASE name[i] = "third-party" -> "thirdparty"
          [] name[i] = "inline-script" -> "inlinescript"
          [] OTHER -> name[i]]

\* One pattern of a domain modifier value: "." escaped, "*" any string, an
\* unbalanced "(" makes re.compile raise.
domain_pattern(tokens) ==
    IF \E i \in 1..Len(tokens) : tokens[i] = "("
    THEN <<Atom("ERROR", "")>>
    ELSE [i \in 1..Len(tokens) |->
            IF tokens[i] = "*" THEN Atom("ANY", "") ELSE Atom("LIT", tokens[i])]

\* A "~" pattern is an exclusion, compiled without its tilde.
IsExclusion(p) == StartsWith(p, <<"~">>)

compiled_domain_pattern(p) == IF IsExclusion(p) THEN domain_pattern(Tail(p)) ELSE domain_pattern(p)

\* Modifier.__matches_domain, lines 186-210, on value.split("|")
matches_domain_list(request_info, domain_pattern_list) ==
    IF \E i \in 1..Len(domain_pattern_list) :
            compiled_domain_pattern(domain_pattern_list[i]) = <<Atom("ERROR", "")>>
    THEN "RAISE"
    ELSE IF \E i \in 1..Len(domain_pattern_list) :
            /\ IsExclusion(domain_pattern_list[i])
            /\ Search(<<compiled_domain_pattern(domain_pattern_list[i])>>, request_info.documentURL)
    THEN "NO_MATCH"
    ELSE from_bool(\E i \in 1..Len(domain_pattern_list) :
            /\ ~IsExclusion(domain_pattern_list[i])
            /\ Search(<<compiled_domain_pattern(domain_pattern_list[i])>>, request_info.documentURL))

\* Modifier.__matches_domain; value None has no endswith
matches_domain(request_info, value) ==
    IF value = NoneVal THEN "RAISE"
    ELSE matches_domain_list(request_info,
            Split(IF EndsWith(value, <<"|">>) THEN Take(value, Len(value) - 1) ELSE value, "|"))

\* getattr(self, f"_Modifier__matches_{name}")(request_info, self.value)
matches_func(name, request_info, value) ==
    IF Len(name) # 1 THEN "RAISE"
    ELSE CASE name[1] = "important" -> "OVERRIDE"
           [] name[1] = "all" -> "MATCH"
           [] name[1] = "document" -> from_bool(request_info.type = "Document")
           [] name[1] = "css" -> from_bool(request_info.type = "Stylesheet")
           [] name[1] = "script" -> from_bool(request_info.type = "Script")
           [] name[1] = "image" -> from_bool(request_info.type = "Image")
           [] name[1] = "media" -> from_bool(request_info.type = "Media")
           [] name[1] = "websocket" -> from_bool(request_info.type = "WebSocket")
           [] name[1] = "xhr" -> from_bool(request_info.type = "XHR")
           [] name[1] = "other" -> from_bool(request_info.type = "Other")
           [] name[1] = "domain" -> matches_domain(request_info, value)
           [] name[1] = "1p" -> from_bool(request_info.isSameSite = "True")
           [] name[1] = "3p" -> from_bool(request_info.isSameSite # "True")
           [] name[1] \in {"redirect", "redirectrule", "denyallow", "subdocument", "popup",
                           "popunder", "inlinescript", "csp", "badfilter", "generichide",
                           "webrtc", "object", "cname", "ping"} -> "NO_MATCH"
           [] OTHER -> "RAISE"

\* invert_modifier of Modifier.matches, lines 123-126
invert_modifier(name) == StartsWith(modifier_aliases(name), <<"~">>)

\* the name Modifier.matches dispatches on, lines 123-131
dispatch_name(name) ==
    RemoveHyphens(IF invert_modifier(name)
                  THEN modifier_aliases(Tail(modifier_aliases(name)))
                  ELSE modifier_aliases(name))

\* Modifier.matches, lines 134-138
matches_result(inverted, result) ==
    IF result = "RAISE" THEN "RAISE"
    ELSE IF inverted THEN invert(result)
    ELSE result

\* Modifier.matches; "RAISE" when the call raises
Modifier_matches(modifier, request_info) ==
    matches_result(invert_modifier(modifier.name),
                   matches_func(dispatch_name(modifier.name), request_info, modifier.value))

\* ------------------------------------------------------------------------
\* Rule
\* ------------------------------------------------------------------------

\* Rule.modifiers is a dict: a function from the names used as keys to Modifiers.
Rule(rule_str, url_pattern, extended_filter_pattern, modifiers, action) ==
    [rule_str |-> rule_str, url_pattern |-> url_pattern,
     extended_filter_pattern |-> extended_filter_pattern,
     modifiers |-> modifiers, action |-> action]

GatingKeys == {<<"domain">>, <<"1p">>, <<"3p">>}

combine_results_no_gate(keys, res) ==
    IF \E k \in keys : res[k] = "RAISE" THEN "RAISE"
    ELSE IF \E k \in keys : res[k] = "OVERRIDE" THEN "OVERRIDE"
    ELSE from_bool(\E k \in keys : res[k] = "MATCH")

combine_results_all_match(keys, res) ==
    IF \E k \in keys : res[k] = "RAISE" THEN "RAISE"
    ELSE IF \E k \in keys \cap GatingKeys : res[k] = "NO_MATCH" THEN "NO_MATCH"
    ELSE IF keys \ GatingKeys = {} THEN "MATCH"
    ELSE IF \E k \in keys \ GatingKeys : res[k] = "OVERRIDE" THEN "OVERRIDE"
    ELSE from_bool(\A k \in keys \ GatingKeys : res[k] = "MATCH")

combine_results_no_empty_test(keys, res) ==
    IF \E k \in keys : res[k] = "RAISE" THEN "RAISE"
    ELSE IF \E k \in keys \cap GatingKeys : res[k] = "NO_MATCH" THEN "NO_MATCH"
    ELSE IF \E k \in keys \ GatingKeys : res[k] = "OVERRIDE" THEN "OVERRIDE"
    ELSE from_bool(\E k \in keys \ GatingKeys : res[k] = "MATCH")

\* Rule.matches, lines 313-348, on the verdicts of the rule's modifiers by key
combine_results(keys, res) ==
    LET gate(k) == k \in keys /\ res[k] = "NO_MATCH"
        gateRaise(k) == k \in keys /\ res[k] = "RAISE"
    IN IF gateRaise(<<"domain">>) THEN "RAISE"
       ELSE IF gate(<<"domain">>) THEN "NO_MATCH"
       ELSE IF gateRaise(<<"3p">>) THEN "RAISE"
       ELSE IF gate(<<"3p">>) THEN "NO_MATCH"
       ELSE IF gateRaise(<<"1p">>) THEN "RAISE"
       ELSE IF gate(<<"1p">>) THEN "NO_MATCH"
       ELSE IF \E k \in keys \ GatingKeys : res[k] = "RAISE" THEN "RAISE"
       ELSE IF keys \ GatingKeys = {} THEN "MATCH"
       ELSE IF \E k \in keys \ GatingKeys : res[k] = "OVERRIDE" THEN "OVERRIDE"
       ELSE IF \A k \in keys \ GatingKeys : res[k] = "IGNORE" THEN "NO_MATCH"
       ELSE from_bool(\E k \in keys \ GatingKeys : res[k] = "MATCH")

\* Rule.matches; "RAISE" when a modifier raises
Rule_matches(rule, request_info) ==
    IF ~Search(rule.url_pattern, request_info.url) THEN "NO_MATCH"
    ELSE IF DOMAIN rule.modifiers = {} THEN "MATCH"
    ELSE combine_results(DOMAIN rule.modifiers,
            [k \in DOMAIN rule.modifiers |-> Modifier_matches(rule.modifiers[k], request_info)])

\* ------------------------------------------------------------------------
\* RuleSet
\* ------------------------------------------------------------------------

RuleSet(title, homepage, rules) == [title |-> title, homepage |-> homepage, rules |-> rules]

RECURSIVE PickFrom(_, _, _)
\* [rules[j] for j in range(i, len(rules)) if j in S]
PickFrom(rules, S, i) ==
    IF i > Len(rules) THEN <<>>
    ELSE (IF i \in S THEN <<rules[i]>> ELSE <<>>) \o PickFrom(rules, S, i + 1)

EvalResult(raised, action, rules) == [raised |-> raised, action |-> action, rules |-> rules]

\* rule_results: Rule.matches of every rule, by position
RuleResults(rs, req) == [i \in 1..Len(rs.rules) |-> Rule_matches(rs.rules[i], req)]

\* [rule for rule, result in rule_results if rule.action == action and result == verdict]
RulesWith(rs, rule_results, action, verdict) ==
    PickFrom(rs.rules,
             {i \in 1..Len(rs.rules) : rs.rules[i].action = action /\ rule_results[i] = verdict},
             1)

choose_deny_first(rs, rule_results) ==
    IF RulesWith(rs, rule_results, "DENY", "OVERRIDE") # <<>>
    THEN EvalResult(FALSE, "DENY", RulesWith(rs, rule_results, "DENY", "OVERRIDE"))
    ELSE IF RulesWith(rs, rule_results, "ALLOW", "OVERRIDE") # <<>>
    THEN EvalResult(FALSE, "ALLOW", RulesWith(rs, rule_results, "ALLOW", "OVERRIDE"))
    ELSE IF RulesWith(rs, rule_results, "DENY", "MATCH") # <<>>
    THEN EvalResult(FALSE, "DENY", RulesWith(rs, rule_results, "DENY", "MATCH"))
    ELSE IF RulesWith(rs, rule_results, "ALLOW", "MATCH") # <<>>
    THEN EvalResult(FALSE, "ALLOW", RulesWith(rs, rule_results, "ALLOW", "MATCH"))
    ELSE EvalResult(FALSE, "NOOP", <<>>)

\* RuleSet.evaluate, lines 630-651: the precedence of the four rule lists
choose_action(rs, rule_results) ==
    IF Len(RulesWith(rs, rule_results, "ALLOW", "OVERRIDE")) > 0
    THEN EvalResult(FALSE, "ALLOW", RulesWith(rs, rule_results, "ALLOW", "OVERRIDE"))
    ELSE IF Len(RulesWith(rs, rule_results, "DENY", "OVERRIDE")) > 0
    THEN EvalResult(FALSE, "DENY", RulesWith(rs, rule_results, "DENY", "OVERRIDE"))
    ELSE IF Len(RulesWith(rs, rule_results, "ALLOW", "MATCH")) > 0
    THEN EvalResult(FALSE, "ALLOW", RulesWith(rs, rule_results, "ALLOW", "MATCH"))
    ELSE IF Len(RulesWith(rs, rule_results, "DENY", "MATCH")) > 0
    THEN EvalResult(FALSE, "DENY", RulesWith(rs, rule_results, "DENY", "MATCH"))
    ELSE EvalResult(FALSE, "NOOP", <<>>)

\* RuleSet.evaluate: (action, rules), rules <<>> for the None of NOOP;
\* raised when a Rule.matches call raises
evaluate_results(rs, rule_results) ==
    IF \E i \in 1..Len(rs.rules) : rule_results[i] = "RAISE"
    THEN EvalResult(TRUE, "NOOP", <<>>)
    ELSE choose_action(rs, rule_results)

\* RuleSet.evaluate
evaluate(rs, req) == evaluate_results(rs, RuleResults(rs, req))

\* ------------------------------------------------------------------------
\* RuleSetParser
\* ------------------------------------------------------------------------

\* re.search(r"^[a-z0-9-]+(\.[a-z0-9-]+)*$", url_pattern_str) is not None
IsDomainLike(s) ==
    /\ s # <<>>
    /\ \A i \in 1..Len(s) : s[i] \in Letters \cup {"-", "."}
    /\ s[1] # "." /\ s[Len(s)] # "."
    /\ \A i \in 1..(Len(s) - 1) : ~(s[i] = "." /\ s[i + 1] = ".")

\* One character of a URL pattern after the replacements of lines 534-563:
\* "." and "?" and "+" and a remaining "|" are literal, "*" is ".*", "^" the
\* separator wildcard; a "$" (only in the URL part of a cosmetic line) is the
\* end anchor; "," is decided by line 568.
UrlAtom(c) ==
    CASE c = "*" -> Atom("ANY", "")
      [] c = "^" -> Atom("SEP", "")
      [] c = "$" -> Atom("END", "")
      [] c = "," -> Atom("COMMA", "")
      [] OTHER -> Atom("LIT", c)

\* re.sub(r"(?!^),(?!$)", r"|", s): a comma that is neither the first nor the
\* last character separates alternatives, another comma is literal.
IsAlternation(items, j) == items[j].k = "COMMA" /\ j # 1 /\ j # Len(items)

\* the first alternation comma at or after position i, Len(items) + 1 if none
NextAlternation(items, i) ==
    IF \E j \in i..Len(items) : IsAlternation(items, j)
    THEN CHOOSE j \in i..Len(items) :
            IsAlternation(items, j) /\ \A k \in i..(j - 1) : ~IsAlternation(items, k)
    ELSE Len(items) + 1

\* items[i..stop-1], a comma in it literal
Alternative(items, i, stop) ==
    [j \in 1..(stop - i) |->
        IF items[i + j - 1].k = "COMMA" THEN Atom("LIT", ",") ELSE items[i + j - 1]]

RECURSIVE AlternativesTo(_, _, _)
AlternativesTo(items, i, stop) ==
    IF stop > Len(items)
    THEN <<Alternative(items, i, stop)>>
    ELSE <<Alternative(items, i, stop)>>
            \o AlternativesTo(items, stop + 1, NextAlternation(items, stop + 1))

\* the alternatives of a pattern
Alternatives(items) ==
    IF items = <<>> THEN <<<<>>>> ELSE AlternativesTo(items, 1, NextAlternation(items, 1))

\* lines 548-557 on the pattern without its leading anchor: a trailing "|"
\* anchors to the end
anchored_body(prefix, body) ==
    Alternatives(prefix
        \o (IF EndsWith(body, <<"|">>)
            THEN [i \in 1..(Len(body) - 1) |-> UrlAtom(body[i])] \o <<Atom("END", "")>>
            ELSE [i \in 1..Len(body) |-> UrlAtom(body[i])]))

\* lines 534-570: "||" any scheme, then the pattern; "|" the start of the URL
compile_url_pattern(s) ==
    IF StartsWith(s, <<"|", "|">>) THEN anchored_body(<<Atom("SCHEME", "")>>, Drop(s, 2))
    ELSE IF StartsWith(s, <<"|">>) THEN anchored_body(<<Atom("START", "")>>, Drop(s, 1))
    ELSE anchored_body(<<>>, s)

\* line 525: the interior of /.../ is the regular expression, its "." any character
verbatim_pattern(inner) ==
    <<[i \in 1..Len(inner) |->
        IF inner[i] = "." THEN Atom("ANYCHAR", "") ELSE Atom("LIT", inner[i])]>>

\* RuleSetParser.__parse_url_pattern; ReError when re.compile raises.  The
\* alphabet has "(" but no ")", so a pattern holding "(" does not compile.
parse_url_pattern(url_pattern_str) ==
    IF url_pattern_str = <<"*">> THEN <<<<Atom("ANY", "")>>>>
    ELSE IF \E i \in 1..Len(url_pattern_str) : url_pattern_str[i] = "(" THEN ReError
    ELSE IF StartsWith(url_pattern_str, <<"/">>) /\ EndsWith(url_pattern_str, <<"/">>)
    THEN verbatim_pattern(SubSeq(url_pattern_str, 2, Len(url_pattern_str) - 1))
    ELSE IF IsDomainLike(url_pattern_str)
    THEN compile_url_pattern(<<"|", "|">> \o url_pattern_str \o <<"^">>)
    ELSE compile_url_pattern(url_pattern_str)

\* RuleSetParser.__parse_extended_filter_pattern
parse_extended_filter_pattern(extended_filter_pattern_str) == extended_filter_pattern_str

\* lines 583-588 on modifier_str.split("=", maxsplit=1)
modifier_of(modifier_parts) ==
    Modifier(modifier_parts[1], IF Len(modifier_parts) < 2 THEN NoneVal ELSE modifier_parts[2])

\* RuleSetParser.__parse_modifier
parse_modifier(modifier_str) == modifier_of(SplitOnce(modifier_str, <<"=">>))

\* lines 497-498, 513-515: the parts of a cosmetic line
extended_parts(rule_parts) == <<rule_parts[1], rule_parts[2], NoneVal>>

\* lines 510-515: the parts of a URL pattern rule
standard_parts(rule_parts) ==
    <<rule_parts[1], NoneVal, IF Len(rule_parts) = 1 THEN NoneVal ELSE rule_parts[2]>>

\* RuleSetParser.__split_rule_parts: (url_pattern_str,
\* extended_filter_pattern_str, modifiers_str)
split_rule_parts(line) ==
    IF Contains(line, <<"#", "#">>) THEN extended_parts(SplitOnce(line, <<"#", "#">>))
    ELSE IF Contains(line, <<"#", "@", "#">>) THEN extended_parts(SplitOnce(line, <<"#", "@", "#">>))
    ELSE IF Contains(line, <<"#", "?", "#">>) THEN extended_parts(SplitOnce(line, <<"#", "?", "#">>))
    ELSE standard_parts(SplitOnce(line, <<"$">>))

\* lines 480-482 on the parsed modifiers: a later modifier of the same name
\* replaces the earlier one
modifiers_dict(parsed) ==
    [n \in {parsed[i].name : i \in 1..Len(parsed)} |->
        parsed[CHOOSE i \in 1..Len(parsed) :
                    parsed[i].name = n /\ \A j \in (i + 1)..Len(parsed) : parsed[j].name # n]]

parsed_modifiers(strs) == [i \in 1..Len(strs) |-> parse_modifier(strs[i])]

\* the dict built by lines 478-482
ModifierDict(modifiers_str) ==
    IF modifiers_str = NoneVal THEN <<>>
    ELSE modifiers_dict(parsed_modifiers(Split(modifiers_str, ",")))

ParseResult(raised, rule) == [raised |-> raised, rule |-> rule]

rule_of_parts_keep_action(rule_str, action, parts, url_pattern) ==
    IF url_pattern = ReError
    THEN ParseResult(TRUE, Rule(rule_str, ReError, NoneVal, <<>>, "NOOP"))
    ELSE ParseResult(FALSE, Rule(rule_str, url_pattern, parse_extended_filter_pattern(parts[2]),
                                 ModifierDict(parts[3]), action))

\* lines 471-488: the Rule of the split line; raised when the URL pattern
\* does not compile
rule_of_parts(rule_str, action, parts, url_pattern) ==
    IF url_pattern = ReError
    THEN ParseResult(TRUE, Rule(rule_str, ReError, NoneVal, <<>>, "NOOP"))
    ELSE ParseResult(FALSE, Rule(rule_str, url_pattern, parse_extended_filter_pattern(parts[2]),
                                 ModifierDict(parts[3]),
                                 IF parse_extended_filter_pattern(parts[2]) # NoneVal
                                 THEN "NOOP" ELSE action))

\* lines 466-469 on the line without its "@@"
parse_rule_line(rule_str, action, line, parts) ==
    rule_of_parts(rule_str,
                  IF Contains(line, <<"#", "@", "#">>) THEN "ALLOW" ELSE action,
                  parts, parse_url_pattern(parts[1]))

\* RuleSetParser.__parse_rule; raised when the line does not compile
parse_rule(line) ==
    IF StartsWith(line, <<"@", "@">>)
    THEN parse_rule_line(line, "ALLOW", Drop(line, 2), split_rule_parts(Drop(line, 2)))
    ELSE parse_rule_line(line, "DENY", line, split_rule_parts(line))

\* RuleSetParser.__parse_metadata: (meta_key, meta_value), or (None, None).
\* re.search finds the first "Title:" (then the first "Homepage:") of the
\* line; the value is what follows it, leading whitespace dropped.
metadata_value(line, meta_key) == LStrip(Drop(line, Find(line, <<meta_key, ":">>) + 1))

parse_metadata(line) ==
    IF Contains(line, <<"Title", ":">>) THEN <<"title", metadata_value(line, "Title")>>
    ELSE IF Contains(line, <<"Homepage", ":">>) THEN <<"homepage", metadata_value(line, "Homepage")>>
    ELSE <<"None", NoneVal>>

\* re.search(r"^\[Adblock(.*)]$", line) is not None
IsFormatTag(line) == StartsWith(line, <<"[", "Adblock">>) /\ EndsWith(line, <<"]">>)

\* lines 431-432: setattr(ruleset, meta_key, meta_value)
set_metadata(rs, meta) ==
    IF meta[1] = "title" THEN [rs EXCEPT !.title = meta[2]]
    ELSE IF meta[1] = "homepage" THEN [rs EXCEPT !.homepage = meta[2]]
    ELSE rs

add_parsed_abort(rs, r) ==
    IF r.raised THEN RuleSet(NoneVal, NoneVal, <<>>)
    ELSE IF r.rule.action # "NOOP" THEN [rs EXCEPT !.rules = Append(@, r.rule)]
    ELSE rs

\* lines 435-443: a line that raised is skipped, a NOOP rule is not added
add_parsed(rs, r) ==
    IF r.raised THEN rs
    ELSE IF r.rule.action # "NOOP" THEN [rs EXCEPT !.rules = Append(@, r.rule)]
    ELSE rs

\* lines 419-443 on the stripped line
handle_line(rs, line, is_first_line) ==
    IF is_first_line /\ IsFormatTag(line) THEN rs
    ELSE IF line = <<>> THEN rs
    ELSE IF StartsWith(line, <<"!">>) THEN set_metadata(rs, parse_metadata(line))
    ELSE add_parsed(rs, parse_rule(line))

\* One pass of the loop of RuleSetParser.parse over the line read.
parse_line(rs, raw, is_first_line) == handle_line(rs, Strip(raw), is_first_line)

RECURSIVE parse_from(_, _, _)
parse_from(rs, text, i) ==
    IF i > Len(text) THEN rs
    ELSE parse_from(parse_line(rs, text[i], i = 1), text, i + 1)

\* RuleSetParser.parse on a text given as the sequence of its lines
parse(text) == parse_from(RuleSet(NoneVal, NoneVal, <<>>), text, 1)

\* ------------------------------------------------------------------------
\* The filter engine run on bounded inputs: a text is parsed line by line as
\* RuleSetParser.parse does, the RuleSet is evaluated for a request.
\* ------------------------------------------------------------------------

VARIABLES
    data,           \* the lines of the filter-list text given to parse
    line_no,        \* number of lines parse has read
    ruleset,        \* the RuleSet parse is building / has returned
    request_info,   \* the request given to RuleSet.evaluate
    match_results,  \* RuleSet.evaluate: the verdicts of rule_results, by rule
    eval_result,    \* what RuleSet.evaluate returned
    filter_pc       \* "start", "parsing", "parsed", "evaluated"

filter_vars == <<data, line_no, ruleset, request_info, match_results, eval_result, filter_pc>>

\* Lines of a text given to parse
MaxLines == 2

\* Rules of a RuleSet given to evaluate
MaxRules == 2

UrlA == <<"h", ":", "/", "/", "a">>

UrlB == <<"h", ":", "/", "/", "b">>

\* What follows the URL pattern in the parsed texts: nothing, a modifier,
\* the three cosmetic markers
ParseTails ==
    { <<>>,
      <<"$", "important">>,
      <<"#", "#", "x">>,
      <<"#", "@", "#", "x">>,
      <<"#", "?", "#", "x">> }

\* Rule lines: with and without "@@", a domain or a pattern that does not compile
ParseRuleLines ==
    { pre \o url \o tail : pre \in {<<>>, <<"@", "@">>}, url \in {<<"a">>, <<"(">>}, tail \in ParseTails }

OtherLines ==
    { <<"[", "Adblock", "]">>,
      <<>>,
      <<"!", " ", "Title", ":", " ", "x">>,
      <<"!", " ", "#", "#", "x">> }

\* The texts parse is run on: the format tag only as the first line.
ParseTexts ==
    { t \in UNION { [1..n -> ParseRuleLines \cup OtherLines] : n \in 0..MaxLines } :
        \A i \in 2..Len(t) : t[i] # <<"[", "Adblock", "]">> }

\* Rule lines of the evaluated RuleSets: ALLOW and DENY rules that match one
\* URL or all, plain, overriding, depending on the resource type, or with a
\* modifier name Modifier has no method for
EvalRuleLines ==
    { pre \o url \o tail :
        pre \in {<<>>, <<"@", "@">>},
        url \in {<<"a">>, <<"*">>},
        tail \in {<<>>, <<"$", "important">>, <<"$", "image">>, <<"$", "font">>} }

EvalTexts == UNION { [1..n -> EvalRuleLines] : n \in 0..MaxRules }

Requests ==
    { RequestInfo(u, d, s, t) :
        u \in {UrlA, UrlB}, d \in {UrlA}, s \in {"True", "False"}, t \in {"Script", "Image"} }

NoRequest == RequestInfo(<<>>, <<>>, "None", "None")

NoResult == EvalResult(FALSE, "None", <<>>)

FilterInit ==
    /\ data = <<>>
    /\ line_no = 0
    /\ ruleset = RuleSet(NoneVal, NoneVal, <<>>)
    /\ request_info = NoRequest
    /\ match_results = <<>>
    /\ eval_result = NoResult
    /\ filter_pc = "start"

\* ------------------------------------------------------------------------
\* The pipeline: RuleSetUpdater, RedditBot queues, LinkChecker and the
\* memoize wrapper around LinkChecker.__check_link
\* ------------------------------------------------------------------------

VARIABLES
    rulesets,                 \* LinkChecker.__rulesets: <<>> is None, <<list>> a list of RuleSets
    rulesets_updated_queue,   \* main: rulesets_updated_queue
    process_requests_queue,   \* main: process_requests_queue
    reply_comments_queue,     \* main: reply_comments_queue
    replies,                  \* the results RedditBot.__reply_to_comments has taken
    updates_sent,             \* passes of the loop of RuleSetUpdater.start
    comments_seen,            \* check comments RedditBot has put on process_requests_queue
    pc,                       \* position of LinkChecker.__process_requests
    message,                  \* __process_requests: message
    result,                   \* __process_message: result
    url_index,                \* __process_message: position in message["check_urls"]
    dequeued,                 \* the messages __process_requests has taken, in order
    storage,                  \* memoize: the cache storage, by URL
    updates_in_progress,      \* memoize: the keys marked as being updated
    tasks,                    \* the running calls of __check_link
    call,                     \* the callers of the memoized __check_link
    calls_made,               \* number of calls of the memoized __check_link
    now,                      \* the clock
    max_cache_age,            \* Config.get_max_cache_age()
    navigations,              \* number of navigations started, by URL
    crashed,                  \* an exception left main's gather
    eviction_data,            \* memoize: the eviction strategy's keys, least recently written first
    releases                  \* memoize: the keys whose release is scheduled

pipeline_vars ==
    <<rulesets, rulesets_updated_queue, process_requests_queue, reply_comments_queue,
      replies, updates_sent, comments_seen, pc, message, result, url_index, dequeued,
      storage, updates_in_progress, tasks, call, calls_made, now, max_cache_age,
      navigations, crashed, eviction_data, releases>>

eviction_vars == <<eviction_data, releases>>

\* Passes of the loop of RuleSetUpdater.start
MaxUpdates == 2

\* Check comments the bot sees
MaxMessages == 2

\* Ticks of the clock
MaxTime == 2

\* Calls of __check_link running at the same time
MaxTasks == 2

\* Calls of the memoized __check_link made by the concurrent callers
MaxCalls == 3

\* LeastRecentlyUpdatedEvictionStrategy(capacity=256) of line 103, scaled to
\* the URLs of the model: the two of CheckUrls fit, a third does not
Capacity == 2

\* ProvidedLifeSpanCacheEntryBuilder's update_after, which line 102 leaves at
\* its default of 10 minutes; the clock ticks in units of 10 minutes.
UpdateAfter == 1

\* MAX_CACHE_AGE of 10 minutes, where an entry expires at its update point,
\* and of 20 minutes
CacheAges == {1, 2}

PageP == <<"h", ":", "/", "/", "x">>

PageQ == <<"h", ":", "/", "/", "h">>

CheckUrls == {PageP, PageQ}

PageR == <<"h", ":", "/", "/", "x", "x">>

\* one URL more than the cache holds
EvictUrls == CheckUrls \cup {PageR}

TitleLine(t) == <<"!", " ", "Title", ":", " ", t>>

HomepageLine(h) == <<"!", " ", "Homepage", ":", " ", h>>

\* Filter lists: denying UrlB, allowing UrlA, denying everything, denying
\* UrlA without a homepage, and without title and homepage
ListDenyB == <<TitleLine("t1"), HomepageLine("h1"), <<"b">>>>

ListAllowA == <<TitleLine("t2"), HomepageLine("h2"), <<"@", "@", "a">>>>

ListDenyAll == <<TitleLine("t3"), HomepageLine("h3"), <<"*">>>>

ListNoHomepage == <<TitleLine("t4"), <<"a">>>>

ListNoTitle == <<<<"a">>>>

\* What data/filter_lists.txt and the servers behind it deliver
FilterLists ==
    { <<ListDenyB, ListAllowA, ListDenyAll, ListNoHomepage>>,
      <<ListNoHomepage>>,
      <<ListNoTitle>> }

\* The Network.requestWillBeSent events a page sends during page.goto, in
\* their order: PageP requests UrlA and UrlB in either order or nothing,
\* PageQ requests UrlB or nothing
PageEvents(url) ==
    IF url = PageQ
    THEN { <<>>, <<RequestInfo(UrlB, url, "False", "Script")>> }
    ELSE { <<>>,
           <<RequestInfo(UrlA, url, "False", "Script"), RequestInfo(UrlB, url, "False", "Script")>>,
           <<RequestInfo(UrlB, url, "False", "Script"), RequestInfo(UrlA, url, "False", "Script")>> }

\* The check messages RedditBot builds (lines 89-93)
Message(comment_id, check_urls, modifier) ==
    [comment_id |-> comment_id, check_urls |-> check_urls, modifier |-> modifier]

\* check_urls and modifier of the comments the bot sees
CheckComments ==
    { <<<<>>, "details">>, <<<<PageQ, PageP>>, "summary">> }

NoMessage == Message(0, <<>>, "None")

\* __process_message: result
Result(comment_id, report, modifier) ==
    [comment_id |-> comment_id, report |-> report, modifier |-> modifier]

NoResultYet == Result(0, <<>>, "None")

\* link_checker.RequestReport
RequestReport(requested_url, ruleset_title, ruleset_homepage, active_rules) ==
    [requested_url |-> requested_url, ruleset_title |-> ruleset_title,
     ruleset_homepage |-> ruleset_homepage, active_rules |-> active_rules]

\* link_checker.Report
Report(title, url, results) == [title |-> title, url |-> url, results |-> results]

\* memoize: CacheEntry built by ProvidedLifeSpanCacheEntryBuilder.build
CacheEntry(created, value) ==
    [created |-> created, update_after |-> created + UpdateAfter,
     expires_after |-> created + max_cache_age, value |-> value]

NoEntry == [created |-> -1, update_after |-> -1, expires_after |-> -1, value |-> Report("", <<>>, <<>>)]

Callers == {"loop", "c1", "c2"}

\* A caller of the memoized __check_link: idle, owner (awaits the call of
\* __check_link it started), waiter (awaits the refresh in progress),
\* returned, raised (cause: what raised in __check_link).  id numbers the
\* calls, joined are the calls in flight for the URL when this one was made,
\* navs the navigations of the URL started before it.
Call(state, url, id, joined, navs, entry) ==
    [state |-> state, url |-> url, id |-> id, joined |-> joined, navs |-> navs,
     entry |-> entry, cause |-> "none"]

NoCall == Call("idle", <<>>, 0, {}, 0, NoEntry)

TaskIds == 1..MaxTasks

\* A call of __check_link: its caller ("background" for the refresh memoize
\* starts with ensure_future), the per-check queue, the requests observed so
\* far, the Report being built and, for each request taken from the queue,
\* what the loop of __create_report did
Task(phase, url, owner, queue, seen, report, log) ==
    [phase |-> phase, url |-> url, owner |-> owner, queue |-> queue, seen |-> seen,
     report |-> report, log |-> log]

NoTask == Task("idle", <<>>, "none", <<>>, <<>>, Report("", <<>>, <<>>), <<>>)

\* main before the gather: nothing loaded, queued or cached; MAX_CACHE_AGE
\* is 20 minutes
PipelineInit ==
    /\ rulesets = <<>>
    /\ rulesets_updated_queue = <<>>
    /\ process_requests_queue = <<>>
    /\ reply_comments_queue = <<>>
    /\ replies = <<>>
    /\ updates_sent = 0
    /\ comments_seen = 0
    /\ pc = "wait_rulesets"
    /\ message = NoMessage
    /\ result = NoResultYet
    /\ url_index = 0
    /\ dequeued = <<>>
    /\ storage = [u \in CheckUrls |-> NoEntry]
    /\ updates_in_progress = {}
    /\ tasks = [t \in TaskIds |-> NoTask]
    /\ call = [c \in Callers |-> NoCall]
    /\ calls_made = 0
    /\ now = 0
    /\ max_cache_age = 2
    /\ navigations = [u \in CheckUrls |-> 0]
    /\ crashed = FALSE
    /\ eviction_data = <<>>
    /\ releases = {}

\* RuleSetParser.parse(data): ruleset = RuleSet()
ParseCall(text) ==
    /\ filter_pc = "start"
    /\ data' = text
    /\ line_no' = 0
    /\ ruleset' = RuleSet(NoneVal, NoneVal, <<>>)
    /\ filter_pc' = "parsing"
    /\ UNCHANGED <<request_info, match_results, eval_result>>
    /\ UNCHANGED pipeline_vars

\* one pass of the while loop: a line is read and handled
ParseLine ==
    /\ filter_pc = "parsing"
    /\ line_no < Len(data)
    /\ ruleset' = parse_line(ruleset, data[line_no + 1], line_no = 0)
    /\ line_no' = line_no + 1
    /\ UNCHANGED <<data, request_info, match_results, eval_result, filter_pc>>
    /\ UNCHANGED pipeline_vars

\* readline returned "": return ruleset
ParseReturn ==
    /\ filter_pc = "parsing"
    /\ line_no = Len(data)
    /\ filter_pc' = "parsed"
    /\ UNCHANGED <<data, line_no, ruleset, request_info, match_results, eval_result>>
    /\ UNCHANGED pipeline_vars

\* RuleSet.evaluate, line 619 and lines 621-651
evaluate_with(r, verdicts) ==
    /\ request_info' = r
    /\ match_results' = verdicts
    /\ eval_result' = evaluate_results(ruleset, verdicts)

\* ruleset.evaluate(request_info)
EvaluateCall(r) ==
    /\ filter_pc = "parsed"
    /\ evaluate_with(r, RuleResults(ruleset, r))
    /\ filter_pc' = "evaluated"
    /\ UNCHANGED <<data, line_no, ruleset>>
    /\ UNCHANGED pipeline_vars

\* RuleSetParser.parse(text) as one step
ParseText(text) ==
    /\ filter_pc = "start"
    /\ data' = text
    /\ line_no' = Len(text)
    /\ ruleset' = parse(text)
    /\ filter_pc' = "parsed"
    /\ UNCHANGED <<request_info, match_results, eval_result>>
    /\ UNCHANGED pipeline_vars

\* Lines of a filter list given to parse
MaxListLines == 4

\* Lines of the filter lists: two rules that compile, one that does not, a
\* cosmetic rule, Title lines with two values, a Homepage line
ListLines ==
    { <<"a">>, <<"@", "@", "b">>, <<"(">>, <<"a", "#", "#", "x">>,
      TitleLine("x"), TitleLine("h"), HomepageLine("a") }

ListTexts == UNION { [1..n -> ListLines] : n \in 0..MaxListLines }

\* Modifiers of a rule given to Rule.matches
MaxModifiers == 2

\* Modifiers as written in rule lines: the party modifiers and their
\* aliases, domain with and without a value, important, resource types,
\* inverted ones, a name Modifier has no method for and one without
\* functionality
MatchModifiers ==
    { <<"3p">>, <<"1p">>, <<"third-party">>, <<"~", "third-party">>,
      <<"domain", "=", "a">>, <<"domain">>,
      <<"important">>, <<"script">>, <<"image">>, <<"~", "image">>, <<"~", "important">>,
      <<"font">>, <<"popup">> }

RECURSIVE JoinModifiers(_)
\* ",".join(mods)
JoinModifiers(mods) ==
    IF Len(mods) = 1 THEN mods[1] ELSE mods[1] \o <<",">> \o JoinModifiers(Tail(mods))

\* Rule lines for UrlA with up to MaxModifiers modifiers
MatchRuleLines ==
    { <<"a">> } \cup
    { <<"a", "$">> \o JoinModifiers(mods) :
        mods \in UNION { [1..n -> MatchModifiers] : n \in 1..MaxModifiers } }

MatchTexts == { <<line>> : line \in MatchRuleLines }

\* Requests of UrlA and UrlB from a page at UrlA or UrlB
MatchRequests ==
    { RequestInfo(u, d, s, t) :
        u \in {UrlA, UrlB}, d \in {UrlA, UrlB}, s \in {"True", "False"}, t \in {"Script", "Image"} }

ParseNext ==
    \/ \E text \in ParseTexts : ParseCall(text)
    \/ ParseLine
    \/ ParseReturn

EvalNext ==
    \/ \E text \in EvalTexts : ParseText(text)
    \/ \E r \in Requests : EvaluateCall(r)

\* RuleSetUpdater.__get_rulesets, lines 25-29: a RuleSet without title is
\* titled by its homepage
titled(rs) == IF rs.title = NoneVal THEN [rs EXCEPT !.title = rs.homepage] ELSE rs

\* RuleSetUpdater.__get_rulesets on the texts of the filter lists
get_rulesets(texts) == [i \in 1..Len(texts) |-> titled(parse(texts[i]))]

\* RuleSetUpdater.__update_rulesets, line 37: "\n".join raises TypeError on a
\* title that is None
join_raises(new_rulesets) == \E i \in 1..Len(new_rulesets) : new_rulesets[i].title = NoneVal

\* lines 43-44 on the rulesets read
put_rulesets(new_rulesets) ==
    /\ crashed' = join_raises(new_rulesets)
    /\ rulesets_updated_queue' =
            IF join_raises(new_rulesets) THEN rulesets_updated_queue
            ELSE Append(rulesets_updated_queue, new_rulesets)

\* One pass of the loop of RuleSetUpdater.start
UpdateRulesets(texts) ==
    /\ ~crashed
    /\ updates_sent < MaxUpdates
    /\ updates_sent' = updates_sent + 1
    /\ put_rulesets(get_rulesets(texts))
    /\ UNCHANGED <<rulesets, process_requests_queue, reply_comments_queue, replies,
                   comments_seen, pc, message, result, url_index, dequeued, storage,
                   updates_in_progress, tasks, call, calls_made, now, max_cache_age,
                   navigations>>
    /\ UNCHANGED filter_vars
    /\ UNCHANGED eviction_vars

\* One pass of the loop of LinkChecker.__listen_for_ruleset_updates
ListenForRulesetUpdates ==
    /\ ~crashed
    /\ rulesets_updated_queue # <<>>
    /\ rulesets' = <<Head(rulesets_updated_queue)>>
    /\ rulesets_updated_queue' = Tail(rulesets_updated_queue)
    /\ UNCHANGED <<process_requests_queue, reply_comments_queue, replies, updates_sent,
                   comments_seen, pc, message, result, url_index, dequeued, storage,
                   updates_in_progress, tasks, call, calls_made, now, max_cache_age,
                   navigations, crashed>>
    /\ UNCHANGED filter_vars
    /\ UNCHANGED eviction_vars

\* RedditBot.__search_comments_for_requests, lines 81-94: a check comment
SearchComments(check_urls, modifier) ==
    /\ ~crashed
    /\ comments_seen < MaxMessages
    /\ comments_seen' = comments_seen + 1
    /\ process_requests_queue' =
            Append(process_requests_queue, Message(comments_seen + 1, check_urls, modifier))
    /\ UNCHANGED <<rulesets, rulesets_updated_queue, reply_comments_queue, replies,
                   updates_sent, pc, message, result, url_index, dequeued, storage,
                   updates_in_progress, tasks, call, calls_made, now, max_cache_age,
                   navigations, crashed>>
    /\ UNCHANGED filter_vars
    /\ UNCHANGED eviction_vars

\* One pass of the loop of RedditBot.__reply_to_comments
ReplyToComments ==
    /\ ~crashed
    /\ reply_comments_queue # <<>>
    /\ replies' = Append(replies, Head(reply_comments_queue))
    /\ reply_comments_queue' = Tail(reply_comments_queue)
    /\ UNCHANGED <<rulesets, rulesets_updated_queue, process_requests_queue, updates_sent,
                   comments_seen, pc, message, result, url_index, dequeued, storage,
                   updates_in_progress, tasks, call, calls_made, now, max_cache_age,
                   navigations, crashed>>
    /\ UNCHANGED filter_vars
    /\ UNCHANGED eviction_vars

\* Time passes
Tick ==
    /\ ~crashed
    /\ now < MaxTime
    /\ now' = now + 1
    /\ UNCHANGED <<rulesets, rulesets_updated_queue, process_requests_queue,
                   reply_comments_queue, replies, updates_sent, comments_seen, pc, message,
                   result, url_index, dequeued, storage, updates_in_progress, tasks, call,
                   calls_made, max_cache_age, navigations, crashed>>
    /\ UNCHANGED filter_vars
    /\ UNCHANGED eviction_vars

\* ---- the memoize wrapper of LinkChecker.__check_link (lines 100-105) ----

is_being_updated_never(key) == FALSE

\* memoize: UpdateStatuses.is_being_updated
is_being_updated(key) == key \in updates_in_progress

HasFreeTask == \E t \in TaskIds : tasks[t].phase = "idle"

FreeTask == CHOOSE t \in TaskIds : tasks[t].phase = "idle"

\* the calls awaiting a Report for the URL
InFlight(url) ==
    { call[c].id : c \in {d \in Callers : call[d].state \in {"owner", "waiter"} /\ call[d].url = url} }

start_check_link_on_loop(owner, url) ==
    /\ HasFreeTask
    /\ \A t \in TaskIds : tasks[t].phase # "creating"
    /\ tasks' = [tasks EXCEPT ![FreeTask] =
                    Task("capturing", url, owner, <<>>, <<>>, Report("", <<>>, <<>>), <<>>)]
    /\ updates_in_progress' = updates_in_progress \cup {url}
    /\ navigations' = [navigations EXCEPT ![url] = @ + 1]

\* memoize: refresh when no refresh of the key is in progress: the key is
\* marked and __check_link called (lines 106-108: queue, then the navigation)
start_check_link(owner, url) ==
    /\ HasFreeTask
    /\ tasks' = [tasks EXCEPT ![FreeTask] =
                    Task("capturing", url, owner, <<>>, <<>>, Report("", <<>>, <<>>), <<>>)]
    /\ updates_in_progress' = updates_in_progress \cup {url}
    /\ navigations' = [navigations EXCEPT ![url] = @ + 1]

expired_never(entry) == FALSE

\* memoize wrapper: current_entry.expires_after <= now
expired(entry) == entry.expires_after <= now

\* memoize wrapper: current_entry.update_after <= now
update_reached(entry) == entry.update_after <= now

\* memoize wrapper, called by caller c for url: a missing or expired entry is
\* refreshed and awaited (by waiting for the refresh in progress if there is
\* one); an entry past its update point is returned and refreshed in the
\* background unless a refresh is in progress; another entry is returned.
memoize_call(c, url) ==
    /\ calls_made' = calls_made + 1
    /\ UNCHANGED storage
    /\ IF storage[url] = NoEntry \/ expired(storage[url])
       THEN IF is_being_updated(url)
            THEN /\ call' = [call EXCEPT ![c] = Call("waiter", url, calls_made + 1,
                                                     InFlight(url), navigations[url], NoEntry)]
                 /\ UNCHANGED <<tasks, updates_in_progress, navigations>>
            ELSE /\ call' = [call EXCEPT ![c] = Call("owner", url, calls_made + 1,
                                                     InFlight(url), navigations[url], NoEntry)]
                 /\ start_check_link(c, url)
       ELSE /\ call' = [call EXCEPT ![c] = Call("returned", url, calls_made + 1,
                                                InFlight(url), navigations[url], storage[url])]
            /\ IF update_reached(storage[url]) /\ ~is_being_updated(url)
               THEN start_check_link("background", url)
               ELSE UNCHANGED <<tasks, updates_in_progress, navigations>>

\* ---- LinkChecker.__check_link: navigation, then evaluation ----

\* handle_pre_request, lines 57-59: queue.put_nowait(request_info)
put_nowait_front(queue, info) == <<info>> \o queue

put_nowait(queue, info) == Append(queue, info)

RECURSIVE handle_pre_requests(_, _)
\* the queue after handle_pre_request has handled the events in their order
handle_pre_requests(queue, events) ==
    IF events = <<>> THEN queue
    ELSE handle_pre_requests(put_nowait(queue, Head(events)), Tail(events))

\* lines 61-70 and 109-111: page.goto returns after handle_pre_request has
\* handled the page's events (the queue is this check's own), the page is
\* closed and __create_report starts in the executor (line 75: an empty
\* Report)
GotoReturns(t, events) ==
    /\ ~crashed
    /\ tasks[t].phase = "capturing"
    /\ tasks' = [tasks EXCEPT ![t].phase = "creating",
                              ![t].queue = handle_pre_requests(<<>>, events),
                              ![t].seen = events,
                              ![t].report = Report("T", tasks[t].url, <<>>)]
    /\ UNCHANGED <<rulesets, rulesets_updated_queue, process_requests_queue,
                   reply_comments_queue, replies, updates_sent, comments_seen, pc, message,
                   result, url_index, dequeued, storage, updates_in_progress, call,
                   calls_made, now, max_cache_age, navigations, crashed>>
    /\ UNCHANGED filter_vars
    /\ UNCHANGED eviction_vars

\* Network.requestWillBeSent events during one navigation
MaxRequests == 2

\* the requests a page can send
PageRequests(url) == { RequestInfo(u, url, "False", "Script") : u \in {UrlA, UrlB} }

page_open_always(t) == tasks[t].phase # "idle"

\* lines 61-67: the session of the page delivers events to the handler from
\* client.on until the page is closed
page_open(t) == tasks[t].phase = "capturing"

\* handle_pre_request, lines 57-59, called for one Network.requestWillBeSent
\* event
HandlePreRequest(t, info) ==
    /\ ~crashed
    /\ page_open(t)
    /\ Len(tasks[t].seen) < MaxRequests
    /\ tasks' = [tasks EXCEPT ![t].queue = put_nowait(@, info),
                              ![t].seen = Append(@, info)]
    /\ UNCHANGED <<rulesets, rulesets_updated_queue, process_requests_queue,
                   reply_comments_queue, replies, updates_sent, comments_seen, pc, message,
                   result, url_index, dequeued, storage, updates_in_progress, call,
                   calls_made, now, max_cache_age, navigations, crashed>>
    /\ UNCHANGED filter_vars
    /\ UNCHANGED eviction_vars

\* lines 63-70: page.goto has returned, title and URL are read and the page
\* is closed; __capture_page_requests returns
CapturePageRequestsReturns(t) ==
    /\ ~crashed
    /\ tasks[t].phase = "capturing"
    /\ tasks' = [tasks EXCEPT ![t].phase = "captured"]
    /\ UNCHANGED <<rulesets, rulesets_updated_queue, process_requests_queue,
                   reply_comments_queue, replies, updates_sent, comments_seen, pc, message,
                   result, url_index, dequeued, storage, updates_in_progress, call,
                   calls_made, now, max_cache_age, navigations, crashed>>
    /\ UNCHANGED filter_vars
    /\ UNCHANGED eviction_vars

\* lines 109-112 and 73-75: __create_report starts in the executor with an
\* empty Report
CreateReportCall(t) ==
    /\ ~crashed
    /\ tasks[t].phase = "captured"
    /\ tasks' = [tasks EXCEPT ![t].phase = "creating",
                              ![t].report = Report("T", tasks[t].url, <<>>)]
    /\ UNCHANGED <<rulesets, rulesets_updated_queue, process_requests_queue,
                   reply_comments_queue, replies, updates_sent, comments_seen, pc, message,
                   result, url_index, dequeued, storage, updates_in_progress, call,
                   calls_made, now, max_cache_age, navigations, crashed>>
    /\ UNCHANGED filter_vars
    /\ UNCHANGED eviction_vars

\* what the loop of lines 85-96 did for one request: raised, the
\* RequestReports appended, the number of RuleSets evaluated
Outcome(raised, appended, evaluated) ==
    [raised |-> raised, appended |-> appended, evaluated |-> evaluated]

rule_strs(rules) == [i \in 1..Len(rules) |-> rules[i].rule_str]

RECURSIVE for_ruleset_no_break(_, _, _, _)
RECURSIVE on_evaluated_no_break(_, _, _, _, _)
on_evaluated_no_break(rulesets_list, info, i, appended, ev) ==
    IF ev.raised THEN Outcome(TRUE, appended, i)
    ELSE IF ev.action = "DENY"
    THEN IF rulesets_list[i].title = NoneVal \/ rulesets_list[i].homepage = NoneVal
         THEN Outcome(TRUE, appended, i)
         ELSE for_ruleset_no_break(rulesets_list, info, i + 1,
                    Append(appended, RequestReport(info.url, rulesets_list[i].title,
                                                   rulesets_list[i].homepage, rule_strs(ev.rules))))
    ELSE for_ruleset_no_break(rulesets_list, info, i + 1, appended)

for_ruleset_no_break(rulesets_list, info, i, appended) ==
    IF i > Len(rulesets_list) THEN Outcome(FALSE, appended, i - 1)
    ELSE on_evaluated_no_break(rulesets_list, info, i, appended,
                               evaluate(rulesets_list[i], info))

RECURSIVE for_ruleset(_, _, _, _)
RECURSIVE on_evaluated(_, _, _, _, _)
\* lines 86-96 on what ruleset.evaluate returned: a DENY appends a
\* RequestReport (pydantic raises on a title or homepage that is None) and
\* breaks
on_evaluated(rulesets_list, info, i, appended, ev) ==
    IF ev.raised THEN Outcome(TRUE, appended, i)
    ELSE IF ev.action = "DENY"
    THEN IF rulesets_list[i].title = NoneVal \/ rulesets_list[i].homepage = NoneVal
         THEN Outcome(TRUE, appended, i)
         ELSE Outcome(FALSE,
                      Append(appended, RequestReport(info.url, rulesets_list[i].title,
                                                     rulesets_list[i].homepage, rule_strs(ev.rules))),
                      i)
    ELSE for_ruleset(rulesets_list, info, i + 1, appended)

\* lines 85-96: for ruleset in self.__rulesets, from the i-th on
for_ruleset(rulesets_list, info, i, appended) ==
    IF i > Len(rulesets_list) THEN Outcome(FALSE, appended, i - 1)
    ELSE on_evaluated(rulesets_list, info, i, appended,
                      evaluate(rulesets_list[i], info))

\* memoize refresh, the call of __check_link raised: the update is marked
\* aborted, nothing is stored, the caller and the callers waiting for the
\* refresh get CachedMethodFailedException
check_link_raised(t, cause) ==
    /\ tasks' = [tasks EXCEPT ![t] = NoTask]
    /\ updates_in_progress' = updates_in_progress \ {tasks[t].url}
    /\ call' = [c \in Callers |->
                    IF \/ call[c].state = "owner" /\ tasks[t].owner = c
                       \/ call[c].state = "waiter" /\ call[c].url = tasks[t].url
                    THEN [call[c] EXCEPT !.state = "raised", !.cause = cause]
                    ELSE call[c]]
    /\ UNCHANGED storage

\* memoize: LeastRecentlyUpdatedEvictionStrategy.mark_written
mark_written(keys, key) == Append(SelectSeq(keys, LAMBDA k : k # key), key)

\* memoize: LeastRecentlyUpdatedEvictionStrategy.mark_released
mark_released(keys, key) == SelectSeq(keys, LAMBDA k : k # key)

\* memoize refresh after the entry is stored: next_to_release takes the
\* least recently written key when more than capacity keys are held, and
\* its release is scheduled on the event loop
next_to_release(keys) ==
    IF Len(keys) > Capacity
    THEN /\ eviction_data' = Tail(keys)
         /\ releases' = releases \cup {Head(keys)}
    ELSE /\ eviction_data' = keys
         /\ UNCHANGED releases

\* memoize refresh, the call of __check_link returned: the entry is built
\* and stored, the update marked done, the eviction strategy told, the
\* caller and the callers waiting for the refresh get the entry
check_link_returned(t, entry) ==
    /\ next_to_release(mark_written(eviction_data, tasks[t].url))
    /\ tasks' = [tasks EXCEPT ![t] = NoTask]
    /\ updates_in_progress' = updates_in_progress \ {tasks[t].url}
    /\ storage' = [storage EXCEPT ![tasks[t].url] = entry]
    /\ call' = [c \in Callers |->
                    IF \/ call[c].state = "owner" /\ tasks[t].owner = c
                       \/ call[c].state = "waiter" /\ call[c].url = tasks[t].url
                    THEN [call[c] EXCEPT !.state = "returned", !.entry = entry]
                    ELSE call[c]]

\* line 63: page.goto raises
GotoRaises(t) ==
    /\ ~crashed
    /\ tasks[t].phase = "capturing"
    /\ check_link_raised(t, "navigation")
    /\ UNCHANGED <<rulesets, rulesets_updated_queue, process_requests_queue,
                   reply_comments_queue, replies, updates_sent, comments_seen, pc, message,
                   result, url_index, dequeued, calls_made, now, max_cache_age,
                   navigations, crashed>>
    /\ UNCHANGED filter_vars
    /\ UNCHANGED eviction_vars

\* lines 79-96 on the outcome for the request taken from the queue
analysed(t, info, rulesets_list, outcome) ==
    IF outcome.raised
    THEN check_link_raised(t, "evaluation")
    ELSE /\ tasks' = [tasks EXCEPT ![t].queue = Tail(@),
                                   ![t].report.results = @ \o outcome.appended,
                                   ![t].log = Append(@, [request_info |-> info,
                                                         rulesets |-> rulesets_list,
                                                         outcome |-> outcome])]
         /\ UNCHANGED <<storage, updates_in_progress, call>>

\* One pass of the while loop of __create_report, in the executor: the next
\* request is taken from the queue and the RuleSets are evaluated for it
AnalyseRequest(t) ==
    /\ ~crashed
    /\ tasks[t].phase = "creating"
    /\ tasks[t].queue # <<>>
    /\ rulesets # <<>>
    /\ analysed(t, Head(tasks[t].queue), rulesets[1],
                for_ruleset(rulesets[1], Head(tasks[t].queue), 1, <<>>))
    /\ UNCHANGED <<rulesets, rulesets_updated_queue, process_requests_queue,
                   reply_comments_queue, replies, updates_sent, comments_seen, pc, message,
                   result, url_index, dequeued, calls_made, now, max_cache_age,
                   navigations, crashed>>
    /\ UNCHANGED filter_vars
    /\ UNCHANGED eviction_vars

\* lines 80-81, 98 and 114: the queue is empty, the Report is returned
CreateReportReturns(t) ==
    /\ ~crashed
    /\ tasks[t].phase = "creating"
    /\ tasks[t].queue = <<>>
    /\ check_link_returned(t, CacheEntry(now, tasks[t].report))
    /\ UNCHANGED <<rulesets, rulesets_updated_queue, process_requests_queue,
                   reply_comments_queue, replies, updates_sent, comments_seen, pc, message,
                   result, url_index, dequeued, calls_made, now, max_cache_age,
                   navigations, crashed>>
    /\ UNCHANGED filter_vars

\* ---- __create_report pass by pass of the for statement ----

\* the entry of the log for the request taken last
current(t) == tasks[t].log[Len(tasks[t].log)]

iterated_reread(t) == rulesets[1]

\* line 85: the list the iterator of the for statement holds, the value
\* self.__rulesets had when the statement started
iterated(t) == current(t).rulesets

\* lines 79 and 85: the next request is taken from the queue and the for
\* statement takes an iterator of self.__rulesets
GetRequest(t) ==
    /\ ~crashed
    /\ tasks[t].phase = "creating"
    /\ tasks[t].queue # <<>>
    /\ rulesets # <<>>
    /\ tasks' = [tasks EXCEPT ![t].phase = "iterating",
                              ![t].queue = Tail(@),
                              ![t].log = Append(@, [request_info |-> Head(tasks[t].queue),
                                                    rulesets |-> rulesets[1],
                                                    outcome |-> Outcome(FALSE, <<>>, 0)])]
    /\ UNCHANGED <<storage, updates_in_progress, call>>
    /\ UNCHANGED <<rulesets, rulesets_updated_queue, process_requests_queue,
                   reply_comments_queue, replies, updates_sent, comments_seen, pc, message,
                   result, url_index, dequeued, calls_made, now, max_cache_age,
                   navigations, crashed>>
    /\ UNCHANGED filter_vars
    /\ UNCHANGED eviction_vars

\* lines 86-96 for the i-th RuleSet of the iteration: a DENY appends a
\* RequestReport (pydantic raises on a title or homepage that is None) and
\* breaks, anything else goes on with the next RuleSet
evaluated_ruleset(t, rs, i, info, ev) ==
    IF ev.raised \/ (ev.action = "DENY" /\ (rs.title = NoneVal \/ rs.homepage = NoneVal))
    THEN check_link_raised(t, "evaluation")
    ELSE /\ tasks' =
                IF ev.action = "DENY"
                THEN [tasks EXCEPT
                        ![t].phase = "creating",
                        ![t].report.results =
                            Append(@, RequestReport(info.url, rs.title, rs.homepage, rule_strs(ev.rules))),
                        ![t].log[Len(tasks[t].log)].outcome =
                            Outcome(FALSE,
                                    <<RequestReport(info.url, rs.title, rs.homepage, rule_strs(ev.rules))>>,
                                    i)]
                ELSE [tasks EXCEPT ![t].log[Len(tasks[t].log)].outcome.evaluated = i]
         /\ UNCHANGED <<storage, updates_in_progress, call>>

\* line 85: the iterator gives its i-th RuleSet, or the for statement ends
next_ruleset(t, list, i, info) ==
    IF i > Len(list)
    THEN /\ tasks' = [tasks EXCEPT ![t].phase = "creating"]
         /\ UNCHANGED <<storage, updates_in_progress, call>>
    ELSE evaluated_ruleset(t, list[i], i, info, evaluate(list[i], info))

\* One pass of the for statement of lines 85-96, in the executor
NextRuleset(t) ==
    /\ ~crashed
    /\ tasks[t].phase = "iterating"
    /\ rulesets # <<>>
    /\ next_ruleset(t, iterated(t), current(t).outcome.evaluated + 1, current(t).request_info)
    /\ UNCHANGED <<rulesets, rulesets_updated_queue, process_requests_queue,
                   reply_comments_queue, replies, updates_sent, comments_seen, pc, message,
                   result, url_index, dequeued, calls_made, now, max_cache_age,
                   navigations, crashed>>
    /\ UNCHANGED filter_vars
    /\ UNCHANGED eviction_vars

\* memoize: try_release, run by the event loop for a key next_to_release
\* returned: a key that is being updated is left alone, otherwise its entry
\* is released from the storage
TryRelease(key) ==
    /\ ~crashed
    /\ key \in releases
    /\ releases' = releases \ {key}
    /\ IF is_being_updated(key)
       THEN UNCHANGED <<storage, eviction_data>>
       ELSE /\ storage' = [storage EXCEPT ![key] = NoEntry]
            /\ eviction_data' = mark_released(eviction_data, key)
    /\ UNCHANGED <<rulesets, rulesets_updated_queue, process_requests_queue,
                   reply_comments_queue, replies, updates_sent, comments_seen, pc, message,
                   result, url_index, dequeued, updates_in_progress, tasks, call,
                   calls_made, now, max_cache_age, navigations, crashed>>
    /\ UNCHANGED filter_vars

\* ---- LinkChecker.__process_requests and __process_message ----

RulesetsRetrieved_no_wait ==
    /\ ~crashed
    /\ pc = "wait_rulesets"
    /\ pc' = "get"
    /\ UNCHANGED <<rulesets, rulesets_updated_queue, process_requests_queue,
                   reply_comments_queue, replies, updates_sent, comments_seen, message,
                   result, url_index, dequeued, storage, updates_in_progress, tasks, call,
                   calls_made, now, max_cache_age, navigations, crashed>>
    /\ UNCHANGED filter_vars
    /\ UNCHANGED eviction_vars

\* lines 131-139: the loop over self.__rulesets is None ends, the browser is
\* launched
RulesetsRetrieved ==
    /\ ~crashed
    /\ pc = "wait_rulesets"
    /\ rulesets # <<>>
    /\ pc' = "get"
    /\ UNCHANGED <<rulesets, rulesets_updated_queue, process_requests_queue,
                   reply_comments_queue, replies, updates_sent, comments_seen, message,
                   result, url_index, dequeued, storage, updates_in_progress, tasks, call,
                   calls_made, now, max_cache_age, navigations, crashed>>
    /\ UNCHANGED filter_vars
    /\ UNCHANGED eviction_vars

\* lines 141-142 and 117-121: a message is taken, __process_message starts
GetMessage ==
    /\ ~crashed
    /\ pc = "get"
    /\ process_requests_queue # <<>>
    /\ message' = Head(process_requests_queue)
    /\ process_requests_queue' = Tail(process_requests_queue)
    /\ dequeued' = Append(dequeued, Head(process_requests_queue))
    /\ result' = Result(Head(process_requests_queue).comment_id, <<>>,
                        Head(process_requests_queue).modifier)
    /\ url_index' = 1
    /\ pc' = "process"
    /\ UNCHANGED <<rulesets, rulesets_updated_queue, reply_comments_queue, replies,
                   updates_sent, comments_seen, storage, updates_in_progress, tasks, call,
                   calls_made, now, max_cache_age, navigations, crashed>>
    /\ UNCHANGED filter_vars
    /\ UNCHANGED eviction_vars

\* lines 123-124: await self.__check_link(browser, url)
CheckLink ==
    /\ ~crashed
    /\ pc = "process"
    /\ url_index <= Len(message.check_urls)
    /\ memoize_call("loop", message.check_urls[url_index])
    /\ pc' = "await"
    /\ UNCHANGED <<rulesets, rulesets_updated_queue, process_requests_queue,
                   reply_comments_queue, replies, updates_sent, comments_seen, message,
                   result, url_index, dequeued, now, max_cache_age, crashed>>
    /\ UNCHANGED filter_vars
    /\ UNCHANGED eviction_vars

\* result["report"][url] = report
set_report(report_dict, url, report) ==
    [u \in DOMAIN report_dict \cup {url} |-> IF u = url THEN report ELSE report_dict[u]]

\* line 125: the call returned
StoreReport ==
    /\ ~crashed
    /\ pc = "await"
    /\ call["loop"].state = "returned"
    /\ result' = [result EXCEPT !.report = set_report(@, call["loop"].url, call["loop"].entry.value)]
    /\ url_index' = url_index + 1
    /\ call' = [call EXCEPT !["loop"] = NoCall]
    /\ pc' = "process"
    /\ UNCHANGED <<rulesets, rulesets_updated_queue, process_requests_queue,
                   reply_comments_queue, replies, updates_sent, comments_seen, message,
                   dequeued, storage, updates_in_progress, tasks, calls_made, now,
                   max_cache_age, navigations, crashed>>
    /\ UNCHANGED filter_vars
    /\ UNCHANGED eviction_vars

\* line 124 raises: nothing between it and main's gather (lines 142, 151-154,
\* main 35-39) catches the exception
CheckLinkRaises ==
    /\ ~crashed
    /\ pc = "await"
    /\ call["loop"].state = "raised"
    /\ crashed' = TRUE
    /\ pc' = "raised"
    /\ UNCHANGED <<rulesets, rulesets_updated_queue, process_requests_queue,
                   reply_comments_queue, replies, updates_sent, comments_seen, message,
                   result, url_index, dequeued, storage, updates_in_progress, tasks, call,
                   calls_made, now, max_cache_age, navigations>>
    /\ UNCHANGED filter_vars
    /\ UNCHANGED eviction_vars

\* lines 127 and 144: the result is put on reply_comments_queue
PutResult ==
    /\ ~crashed
    /\ pc = "process"
    /\ url_index > Len(message.check_urls)
    /\ reply_comments_queue' = Append(reply_comments_queue, result)
    /\ pc' = "get"
    /\ UNCHANGED <<rulesets, rulesets_updated_queue, process_requests_queue, replies,
                   updates_sent, comments_seen, message, result, url_index, dequeued,
                   storage, updates_in_progress, tasks, call, calls_made, now,
                   max_cache_age, navigations, crashed>>
    /\ UNCHANGED filter_vars
    /\ UNCHANGED eviction_vars

\* ---- concurrent callers of the memoized __check_link ----

ConcurrentCallers == {"c1", "c2"}

\* a caller awaits self.__check_link(browser, url)
CallCheckLink(c, url) ==
    /\ call[c].state = "idle"
    /\ calls_made < MaxCalls
    /\ memoize_call(c, url)
    /\ UNCHANGED <<rulesets, rulesets_updated_queue, process_requests_queue,
                   reply_comments_queue, replies, updates_sent, comments_seen, pc, message,
                   result, url_index, dequeued, now, max_cache_age, crashed>>
    /\ UNCHANGED filter_vars
    /\ UNCHANGED eviction_vars

\* the caller goes on with the Report or the exception
CallDone(c) ==
    /\ call[c].state \in {"returned", "raised"}
    /\ call' = [call EXCEPT ![c] = NoCall]
    /\ UNCHANGED <<rulesets, rulesets_updated_queue, process_requests_queue,
                   reply_comments_queue, replies, updates_sent, comments_seen, pc, message,
                   result, url_index, dequeued, storage, updates_in_progress, tasks,
                   calls_made, now, max_cache_age, navigations, crashed>>
    /\ UNCHANGED filter_vars
    /\ UNCHANGED eviction_vars

\* the memoized method with RuleSets loaded and no call made yet
CacheInit ==
    /\ FilterInit
    /\ rulesets = <<get_rulesets(<<ListDenyB, ListAllowA, ListDenyAll, ListNoHomepage>>)>>
    /\ rulesets_updated_queue = <<>>
    /\ process_requests_queue = <<>>
    /\ reply_comments_queue = <<>>
    /\ replies = <<>>
    /\ updates_sent = 0
    /\ comments_seen = 0
    /\ pc = "get"
    /\ message = NoMessage
    /\ result = NoResultYet
    /\ url_index = 0
    /\ dequeued = <<>>
    /\ storage = [u \in CheckUrls |-> NoEntry]
    /\ updates_in_progress = {}
    /\ tasks = [t \in TaskIds |-> NoTask]
    /\ call = [c \in Callers |-> NoCall]
    /\ calls_made = 0
    /\ now = 0
    /\ max_cache_age \in CacheAges
    /\ navigations = [u \in CheckUrls |-> 0]
    /\ crashed = FALSE
    /\ eviction_data = <<>>
    /\ releases = {}

\* the memoized method with RuleSets loaded, no call made yet and one URL
\* more to check than the cache holds
EvictInit ==
    /\ FilterInit
    /\ rulesets = <<get_rulesets(<<ListDenyB, ListAllowA, ListDenyAll, ListNoHomepage>>)>>
    /\ rulesets_updated_queue = <<>>
    /\ process_requests_queue = <<>>
    /\ reply_comments_queue = <<>>
    /\ replies = <<>>
    /\ updates_sent = 0
    /\ comments_seen = 0
    /\ pc = "get"
    /\ message = NoMessage
    /\ result = NoResultYet
    /\ url_index = 0
    /\ dequeued = <<>>
    /\ storage = [u \in EvictUrls |-> NoEntry]
    /\ updates_in_progress = {}
    /\ tasks = [t \in TaskIds |-> NoTask]
    /\ call = [c \in Callers |-> NoCall]
    /\ calls_made = 0
    /\ now = 0
    /\ max_cache_age = 2
    /\ navigations = [u \in EvictUrls |-> 0]
    /\ crashed = FALSE
    /\ eviction_data = <<>>
    /\ releases = {}

vars == <<filter_vars, pipeline_vars>>

Init == FilterInit /\ PipelineInit

Next ==
    \/ \E texts \in FilterLists : UpdateRulesets(texts)
    \/ ListenForRulesetUpdates
    \/ \E comment \in CheckComments : SearchComments(comment[1], comment[2])
    \/ ReplyToComments
    \/ Tick
    \/ RulesetsRetrieved
    \/ GetMessage
    \/ CheckLink
    \/ StoreReport
    \/ CheckLinkRaises
    \/ PutResult
    \/ \E t \in TaskIds : \E events \in PageEvents(tasks[t].url) : GotoReturns(t, events)
    \/ \E t \in TaskIds : GotoRaises(t)
    \/ \E t \in TaskIds : AnalyseRequest(t)
    \/ \E t \in TaskIds : CreateReportReturns(t)

\* The pipeline: updater, bot, link checker
Spec == Init /\ [][Next]_vars

CacheNext ==
    \/ \E c \in ConcurrentCallers, url \in CheckUrls : CallCheckLink(c, url)
    \/ \E c \in ConcurrentCallers : CallDone(c)
    \/ Tick
    \/ \E t \in TaskIds : \E events \in PageEvents(tasks[t].url) : GotoReturns(t, events)
    \/ \E t \in TaskIds : GotoRaises(t)
    \/ \E t \in TaskIds : AnalyseRequest(t)
    \/ \E t \in TaskIds : CreateReportReturns(t)

\* The memoized __check_link under concurrent callers
SpecCache == CacheInit /\ [][CacheNext]_vars

\* parse on every text of ParseTexts
SpecParse == Init /\ [][ParseNext]_vars

\* evaluate on every RuleSet parsed from EvalTexts and every request of Requests
SpecEval == Init /\ [][EvalNext]_vars

ListNext ==
    \/ \E text \in ListTexts : ParseCall(text)
    \/ ParseLine
    \/ ParseReturn

\* parse on every filter list of ListTexts
SpecLists == Init /\ [][ListNext]_vars

EvictNext ==
    \/ \E c \in ConcurrentCallers, url \in EvictUrls : CallCheckLink(c, url)
    \/ \E c \in ConcurrentCallers : CallDone(c)
    \/ \E t \in TaskIds : \E events \in PageEvents(tasks[t].url) : GotoReturns(t, events)
    \/ \E t \in TaskIds : GotoRaises(t)
    \/ \E t \in TaskIds : AnalyseRequest(t)
    \/ \E t \in TaskIds : CreateReportReturns(t)
    \/ \E key \in EvictUrls : TryRelease(key)

\* The memoized __check_link called for more URLs than the cache holds
SpecEvict == EvictInit /\ [][EvictNext]_vars

CaptureNext ==
    \/ \E c \in ConcurrentCallers, url \in CheckUrls : CallCheckLink(c, url)
    \/ \E c \in ConcurrentCallers : CallDone(c)
    \/ \E t \in TaskIds : \E info \in PageRequests(tasks[t].url) : HandlePreRequest(t, info)
    \/ \E t \in TaskIds : CapturePageRequestsReturns(t)
    \/ \E t \in TaskIds : GotoRaises(t)
    \/ \E t \in TaskIds : CreateReportCall(t)
    \/ \E t \in TaskIds : AnalyseRequest(t)
    \/ \E t \in TaskIds : CreateReportReturns(t)

\* __check_link step by step: each event of the navigation, the return of
\* the capture, the start of __create_report, each request analysed
SpecCapture == CacheInit /\ [][CaptureNext]_vars

MatchNext ==
    \/ \E text \in MatchTexts : ParseText(text)
    \/ \E r \in MatchRequests : EvaluateCall(r)

\* Rule.matches (through evaluate) on every rule of MatchRuleLines and every
\* request of MatchRequests
SpecMatch == Init /\ [][MatchNext]_vars

RefreshNext ==
    \/ \E texts \in FilterLists : UpdateRulesets(texts)
    \/ ListenForRulesetUpdates
    \/ \E comment \in CheckComments : SearchComments(comment[1], comment[2])
    \/ RulesetsRetrieved
    \/ GetMessage
    \/ CheckLink
    \/ StoreReport
    \/ CheckLinkRaises
    \/ PutResult
    \/ \E t \in TaskIds : \E events \in PageEvents(tasks[t].url) : GotoReturns(t, events)
    \/ \E t \in TaskIds : GetRequest(t)
    \/ \E t \in TaskIds : NextRuleset(t)
    \/ \E t \in TaskIds : CreateReportReturns(t)

\* The pipeline with __create_report pass by pass: the updater delivers
\* while Reports are built
SpecRefresh == Init /\ [][RefreshNext]_vars

\* ------------------------------------------------------------------------
\* Claims
\* ------------------------------------------------------------------------

\* Rule.matches of the i-th rule of the evaluated RuleSet for the request
Verdict(i) == Rule_matches(ruleset.rules[i], request_info)

\* Positions of the rules with this action and this verdict
TierIdx(action, verdict) ==
    {i \in 1..Len(ruleset.rules) : ruleset.rules[i].action = action /\ Verdict(i) = verdict}

\* The k-th smallest element of a set of positions
NthOf(S, k) == CHOOSE i \in S : Cardinality({j \in S : j < i}) = k - 1

\* The rules at the positions S, in ruleset order
RulesAt(S) == [k \in 1..Cardinality(S) |-> ruleset.rules[NthOf(S, k)]]

TierOrder ==
    << <<"ALLOW", "OVERRIDE">>, <<"DENY", "OVERRIDE">>, <<"ALLOW", "MATCH">>, <<"DENY", "MATCH">> >>

\* C1: whenever RuleSet.evaluate returns, it returns the action and exactly
\* the rules, in ruleset order, of the first non-empty tier in the order
\* override-ALLOW, override-DENY, plain ALLOW, plain DENY, and NOOP with no
\* rules when every tier is empty.
C1_EvaluateTiers ==
    (filter_pc = "evaluated" /\ ~eval_result.raised) =>
        LET tier(t) == TierIdx(TierOrder[t][1], TierOrder[t][2])
            nonempty == {t \in 1..4 : tier(t) # {}}
        IN IF nonempty = {}
           THEN eval_result.action = "NOOP" /\ eval_result.rules = <<>>
           ELSE LET w == CHOOSE t \in nonempty : \A t2 \in nonempty : t <= t2
                IN /\ eval_result.action = TierOrder[w][1]
                   /\ eval_result.rules = RulesAt(tier(w))

\* C1 witness: an overriding DENY rule and a plain ALLOW rule both apply, no
\* overriding ALLOW does, and evaluate returned DENY.
C1_Witness ==
    /\ filter_pc = "evaluated"
    /\ TierIdx("DENY", "OVERRIDE") # {}
    /\ TierIdx("ALLOW", "MATCH") # {}
    /\ TierIdx("ALLOW", "OVERRIDE") = {}
    /\ eval_result.action = "DENY"
    /\ Len(eval_result.rules) = 1

HasCosmeticMarker(line) ==
    \/ Contains(line, <<"#", "#">>)
    \/ Contains(line, <<"#", "@", "#">>)
    \/ Contains(line, <<"#", "?", "#">>)

\* C10: a RuleSet built by parse holds no NOOP rule: every rule has action
\* ALLOW or DENY, none comes from a line with "##", "#@#" or "#?#", and every
\* such line that compiles is parsed as NOOP, also after "@@".
C10_NoNoopRule ==
    /\ \A i \in 1..Len(ruleset.rules) :
        /\ ruleset.rules[i].action \in {"ALLOW", "DENY"}
        /\ ~HasCosmeticMarker(ruleset.rules[i].rule_str)
    /\ \A i \in 1..line_no :
        (HasCosmeticMarker(data[i]) /\ ~parse_rule(Strip(data[i])).raised)
            => parse_rule(Strip(data[i])).rule.action = "NOOP"

\* C10 witness: parse returned for a text whose first line is an "@@" line
\* with a cosmetic marker and whose second line is a rule that was kept.
C10_Witness ==
    /\ filter_pc = "parsed"
    /\ Len(data) = 2
    /\ data[1] = <<"@", "@", "a", "#", "@", "#", "x">>
    /\ Len(ruleset.rules) = 1
    /\ ruleset.rules[1].rule_str = data[2]

\* the calls of __check_link running for the URL
Running(url) == {t \in TaskIds : tasks[t].phase # "idle" /\ tasks[t].url = url}

\* caller c made its call while the call of caller d for the same URL was
\* in flight, and both have their Report
BothReturned(c, d) ==
    /\ c # d
    /\ call[c].state = "returned"
    /\ call[d].state = "returned"
    /\ call[c].url = call[d].url
    /\ call[d].id \in call[c].joined

Issued(c, url) == call[c].state = "idle" /\ call'[c].state # "idle" /\ call'[c].url = url

\* the stored entry for url exists and has not expired
Fresh(url) == storage[url] # NoEntry /\ now < storage[url].expires_after

\* the stored entry for url exists and has expired
Stale(url) == storage[url] # NoEntry /\ storage[url].expires_after <= now

\* C3 as stated: no Report older than the max cache age is returned, a check
\* made after the entry has expired performs a new navigation, and a check
\* made before it expires performs no navigation.
C3_AsStated ==
    [][\A c \in Callers : \A url \in CheckUrls :
        /\ (call'[c].state = "returned" /\ call[c].state # "returned")
                => now' - call'[c].entry.created <= max_cache_age
        /\ (Issued(c, url) /\ Stale(url)) => navigations'[url] = navigations[url] + 1
        /\ (Issued(c, url) /\ Fresh(url)) => navigations'[url] = navigations[url]]_vars

\* C3, amended: no Report older than the max cache age is returned; a check
\* made after the stored entry has expired does not return it but waits for
\* a navigation, which it starts unless a refresh of the URL is in progress;
\* a check made before the entry expires returns the stored entry at once and
\* starts a navigation exactly when the entry's update point has passed and
\* no refresh of the URL is in progress.
C3_CacheTTL ==
    [][\A c \in Callers : \A url \in CheckUrls :
        /\ (call'[c].state = "returned" /\ call[c].state # "returned")
                => now' - call'[c].entry.created <= max_cache_age
        /\ (Issued(c, url) /\ Stale(url)) =>
                /\ call'[c].state \in {"owner", "waiter"}
                /\ navigations'[url] = navigations[url] + (IF url \in updates_in_progress THEN 0 ELSE 1)
                /\ url \in updates_in_progress'
        /\ (Issued(c, url) /\ Fresh(url)) =>
                /\ call'[c].state = "returned"
                /\ call'[c].entry = storage[url]
                /\ navigations'[url] = navigations[url] +
                        (IF storage[url].update_after <= now /\ url \notin updates_in_progress
                         THEN 1 ELSE 0)]_vars

\* C3 witness: with a max cache age above the update point, a caller got the
\* stored Report of PageP at the entry's update point while the navigation
\* its call started runs in the background.
C3_Witness ==
    /\ max_cache_age > UpdateAfter
    /\ \E c \in ConcurrentCallers :
        /\ call[c].state = "returned"
        /\ call[c].entry = storage[PageP]
        /\ call[c].navs = 1
    /\ now >= storage[PageP].update_after
    /\ now < storage[PageP].expires_after
    /\ navigations[PageP] = 2
    /\ \E t \in TaskIds : tasks[t].url = PageP /\ tasks[t].owner = "background"

\* the results put on reply_comments_queue so far, in order
ResultsPut == replies \o reply_comments_queue

\* the results put for the comment
ResultsFor(comment_id) == {k \in 1..Len(ResultsPut) : ResultsPut[k].comment_id = comment_id}

\* C4: a check whose navigation failed ends in a failed-check outcome for
\* the request it came from, and no cache entry is stored for its URL: when
\* __process_requests is through with the message, a result for the
\* message's comment has been put on reply_comments_queue.
C4_FailedCheckOutcome ==
    (call["loop"].state = "raised" /\ call["loop"].cause = "navigation") =>
        /\ ~Fresh(call["loop"].url)
        /\ pc = "raised" => ResultsFor(message.comment_id) # {}

\* C5: a check request whose navigation or evaluation raised does not end
\* the loop of __process_requests.
C5_LoopSurvivesFailure == pc # "raised"

\* C6: no message is taken from process_requests_queue and no navigation or
\* evaluation runs while self.__rulesets is None, once set it is never None
\* again, and messages queued while it is None stay queued.
C6_WaitForRulesets ==
    /\ [](rulesets = <<>> =>
            /\ pc = "wait_rulesets"
            /\ dequeued = <<>>
            /\ \A t \in TaskIds : tasks[t].phase = "idle")
    /\ [][/\ rulesets # <<>> => rulesets' # <<>>
          /\ rulesets = <<>> =>
                /\ Len(process_requests_queue') >= Len(process_requests_queue)
                /\ SubSeq(process_requests_queue', 1, Len(process_requests_queue))
                        = process_requests_queue]_vars

\* C6 witness: two messages were queued before the first rulesets arrived,
\* and the first of them is being checked now that they have.
C6_Witness ==
    /\ rulesets # <<>>
    /\ updates_sent = 1
    /\ rulesets_updated_queue = <<>>
    /\ Len(dequeued) = 1
    /\ Len(process_requests_queue) = 1
    /\ pc = "await"
    /\ \E t \in TaskIds : tasks[t].phase = "creating" /\ tasks[t].owner = "loop"

\* the RuleSets of the list that deny the request
Denying(rulesets_list, info) ==
    {i \in 1..Len(rulesets_list) : evaluate(rulesets_list[i], info).action = "DENY"}

\* C7: for each request taken from the queue the Report gets at most one
\* RequestReport: none, with every RuleSet evaluated, when no RuleSet
\* denies it; else the one of the first RuleSet in list order that denies it,
\* with that RuleSet's title and homepage and the strings of the rules
\* evaluate returned, and no RuleSet after it evaluated.
C7_FirstDenyWins ==
    \A t \in TaskIds : \A k \in 1..Len(tasks[t].log) :
        LET e == tasks[t].log[k]
            first == CHOOSE i \in Denying(e.rulesets, e.request_info) :
                        \A j \in Denying(e.rulesets, e.request_info) : i <= j
        IN IF Denying(e.rulesets, e.request_info) = {}
           THEN e.outcome.appended = <<>> /\ e.outcome.evaluated = Len(e.rulesets)
           ELSE /\ e.outcome.evaluated = first
                /\ e.outcome.appended =
                    <<RequestReport(e.request_info.url, e.rulesets[first].title,
                                    e.rulesets[first].homepage,
                                    rule_strs(evaluate(e.rulesets[first], e.request_info).rules))>>

\* C7 witness: for a request of UrlA the first RuleSet returned NOOP, the
\* second ALLOW, the third DENY and its RequestReport was appended; the
\* fourth RuleSet, which denies UrlA too, was not evaluated.
C7_Witness ==
    \E t \in TaskIds : \E k \in 1..Len(tasks[t].log) :
        /\ tasks[t].log[k].request_info.url = UrlA
        /\ Len(tasks[t].log[k].rulesets) = 4
        /\ evaluate(tasks[t].log[k].rulesets[1], tasks[t].log[k].request_info).action = "NOOP"
        /\ evaluate(tasks[t].log[k].rulesets[2], tasks[t].log[k].request_info).action = "ALLOW"
        /\ 4 \in Denying(tasks[t].log[k].rulesets, tasks[t].log[k].request_info)
        /\ tasks[t].log[k].outcome.evaluated = 3
        /\ Len(tasks[t].log[k].outcome.appended) = 1
        /\ tasks[t].log[k].outcome.appended[1].ruleset_title = <<"t3">>

RECURSIVE Denied(_)
\* the URLs of the analysed requests that got a RequestReport, in order
Denied(log) ==
    IF log = <<>> THEN <<>>
    ELSE Denied(SubSeq(log, 1, Len(log) - 1)) \o
            (IF log[Len(log)].outcome.appended = <<>> THEN <<>>
             ELSE <<log[Len(log)].request_info.url>>)

\* C8: the requests are analysed in the order they were observed during the
\* navigation, and the RequestReports of the Report are those of the denied
\* requests in that order.
C8_ObservationOrder ==
    \A t \in TaskIds :
        /\ \A k \in 1..Len(tasks[t].log) : tasks[t].log[k].request_info = tasks[t].seen[k]
        /\ [k \in 1..Len(tasks[t].report.results) |-> tasks[t].report.results[k].requested_url]
                = Denied(tasks[t].log)

\* C8 witness: UrlA was observed before UrlB; UrlB is denied by the first
\* RuleSet and UrlA by the third, and the Report lists UrlA before UrlB.
C8_Witness ==
    \E t \in TaskIds :
        /\ tasks[t].phase = "creating"
        /\ tasks[t].queue = <<>>
        /\ Len(tasks[t].seen) = 2
        /\ tasks[t].seen[1].url = UrlA
        /\ tasks[t].seen[2].url = UrlB
        /\ Len(tasks[t].report.results) = 2
        /\ tasks[t].report.results[1].requested_url = UrlA
        /\ tasks[t].report.results[1].ruleset_title = <<"t3">>
        /\ tasks[t].report.results[2].ruleset_title = <<"t1">>

\* the set of the URLs of a list
UrlsOf(check_urls) == {check_urls[i] : i \in 1..Len(check_urls)}

\* C9: once __process_requests is through with a message it took from
\* process_requests_queue, exactly one result has been put for it, with the
\* message's comment id and modifier and a Report for each of its URLs and
\* for no other URL.
C9_OneResultPerRequest ==
    \A k \in 1..Len(dequeued) :
        (k < Len(dequeued) \/ pc \in {"get", "raised"}) =>
            /\ Cardinality(ResultsFor(dequeued[k].comment_id)) = 1
            /\ \A n \in ResultsFor(dequeued[k].comment_id) :
                /\ ResultsPut[n].modifier = dequeued[k].modifier
                /\ DOMAIN ResultsPut[n].report = UrlsOf(dequeued[k].check_urls)

\* the i-th line of the text is one parse hands to __parse_rule
IsRuleLine(text, i) ==
    /\ ~(i = 1 /\ IsFormatTag(Strip(text[i])))
    /\ Strip(text[i]) # <<>>
    /\ ~StartsWith(Strip(text[i]), <<"!">>)

\* __parse_rule returns for the line
Compiles(line) == ~parse_rule(Strip(line)).raised

\* the rule lines among the first n lines that compile to a rule that is not NOOP
KeptLines(text, n) ==
    {i \in 1..n : /\ IsRuleLine(text, i)
                  /\ Compiles(text[i])
                  /\ parse_rule(Strip(text[i])).rule.action # "NOOP"}

\* the rules of the lines at the positions S, in line order
RulesOfLines(text, S) ==
    [k \in 1..Cardinality(S) |-> parse_rule(Strip(text[NthOf(S, k)])).rule]

\* the "!" lines among the first n lines that carry the metadata key
MetaLines(text, n, key) ==
    {i \in 1..n : /\ StartsWith(Strip(text[i]), <<"!">>)
                  /\ parse_metadata(Strip(text[i]))[1] = key}

\* the values the lines at the positions S carry
MetaValues(text, S) == {parse_metadata(Strip(text[i]))[2] : i \in S}

\* C11: parse skips a rule line whose compilation raises and nothing else
\* changes: after any number of lines the RuleSet holds exactly the rules of
\* the lines read that compiled and are not NOOP, in line order (none when no
\* line compiled), its title and homepage are values of Title and Homepage
\* lines read, None only when no such line was read, and reading a line that
\* does not compile leaves the RuleSet as it was.
C11_ParserResilience ==
    /\ [](filter_pc \in {"parsing", "parsed"} =>
            /\ ruleset.rules = RulesOfLines(data, KeptLines(data, line_no))
            /\ IF MetaLines(data, line_no, "title") = {}
               THEN ruleset.title = NoneVal
               ELSE ruleset.title \in MetaValues(data, MetaLines(data, line_no, "title"))
            /\ IF MetaLines(data, line_no, "homepage") = {}
               THEN ruleset.homepage = NoneVal
               ELSE ruleset.homepage \in MetaValues(data, MetaLines(data, line_no, "homepage")))
    /\ [][(/\ filter_pc = "parsing"
           /\ line_no' = line_no + 1
           /\ IsRuleLine(data, line_no')
           /\ ~Compiles(data[line_no'])) => ruleset' = ruleset]_vars

\* C11 witness: parse returned for a list with a line that does not compile
\* between two rule lines and a Homepage line after them: the RuleSet holds
\* the two rules and the homepage.
C11_Witness ==
    /\ filter_pc = "parsed"
    /\ data = << <<"a">>, <<"(">>, <<"@", "@", "b">>, HomepageLine("a") >>
    /\ Len(ruleset.rules) = 2
    /\ ruleset.rules[1].rule_str = <<"a">>
    /\ ruleset.rules[2].rule_str = <<"@", "@", "b">>
    /\ ruleset.homepage = <<"a">>

\* C12: when several "!" lines carry the same key, the title (the homepage) of
\* the RuleSet is the value of the first Title (Homepage) line read.
C12_FirstMetadataWins ==
    filter_pc \in {"parsing", "parsed"} =>
        /\ MetaLines(data, line_no, "title") # {} =>
                ruleset.title = parse_metadata(Strip(data[NthOf(MetaLines(data, line_no, "title"), 1)]))[2]
        /\ MetaLines(data, line_no, "homepage") # {} =>
                ruleset.homepage = parse_metadata(Strip(data[NthOf(MetaLines(data, line_no, "homepage"), 1)]))[2]

\* evaluate was called on the RuleSet of one rule and the rule's URL pattern
\* matches the request
Matched ==
    /\ filter_pc = "evaluated"
    /\ Len(ruleset.rules) = 1
    /\ Search(ruleset.rules[1].url_pattern, request_info.url)

\* the keys of the rule's modifiers
Keys == DOMAIN ruleset.rules[1].modifiers

\* the verdict of the rule's modifier stored under the key
ModVerdict(k) == Modifier_matches(ruleset.rules[1].modifiers[k], request_info)

\* Rule.matches returned
Returned == match_results[1] # "RAISE"

\* the inversion table
InvertedOf(v) ==
    CASE v = "MATCH" -> "NO_MATCH"
      [] v = "OVERRIDE" -> "NO_MATCH"
      [] v = "NO_MATCH" -> "MATCH"
      [] v = "IGNORE" -> "IGNORE"

\* the verdict of the modifier without its leading "~"
BaseVerdict(k) ==
    Modifier_matches(Modifier(Tail(k), ruleset.rules[1].modifiers[k].value), request_info)

\* C13: a modifier written with a leading "~" yields the inversion of the
\* verdict of the modifier without it (MATCH and OVERRIDE become NO_MATCH,
\* NO_MATCH becomes MATCH, IGNORE stays), and a rule whose URL pattern matches
\* and whose only modifier is ~image returns MATCH for a request that is not
\* of type Image and NO_MATCH for one of type Image.
C13_ModifierInversion ==
    Matched =>
        /\ \A v \in {"MATCH", "OVERRIDE", "NO_MATCH", "IGNORE"} : invert(v) = InvertedOf(v)
        /\ \A k \in Keys :
            (Head(k) = "~" /\ BaseVerdict(k) # "RAISE") => ModVerdict(k) = InvertedOf(BaseVerdict(k))
        /\ Keys = {<<"~", "image">>} =>
                match_results[1] = (IF request_info.type = "Image" THEN "NO_MATCH" ELSE "MATCH")

\* C13 witness: the rule a$~image was matched against a Script request of
\* UrlA and returned MATCH.
C13_Witness ==
    /\ Matched
    /\ data = << <<"a", "$", "~", "image">> >>
    /\ request_info.type = "Script"
    /\ match_results = <<"MATCH">>

\* C15: whenever Rule.matches returns for a rule whose URL pattern matches
\* and whose domain, 3p or 1p modifier yields NO_MATCH, it returns NO_MATCH,
\* whatever the other modifiers are, important included.
C15_GatingModifiers ==
    (Matched /\ Returned /\ \E k \in Keys \cap GatingKeys : ModVerdict(k) = "NO_MATCH")
        => match_results[1] = "NO_MATCH"

\* C15 witness: the rule a$3p,important was matched against a same-site
\* request of UrlA and returned NO_MATCH.
C15_Witness ==
    /\ Matched
    /\ data = << <<"a", "$", "3p", ",", "important">> >>
    /\ request_info.isSameSite = "True"
    /\ ModVerdict(<<"important">>) = "OVERRIDE"
    /\ match_results = <<"NO_MATCH">>

RECURSIVE Canonical(_)
\* the rule line with the aliases third-party and ~third-party written 3p and 1p
Canonical(line) ==
    IF line = <<>> THEN <<>>
    ELSE IF StartsWith(line, <<"~", "third-party">>) THEN <<"1p">> \o Canonical(Drop(line, 2))
    ELSE IF Head(line) = "third-party" THEN <<"3p">> \o Canonical(Tail(line))
    ELSE <<Head(line)>> \o Canonical(Tail(line))

\* C16: a modifier written with an alias is stored under its canonical key,
\* and the rule returns what the rule written with 3p for third-party and 1p
\* for ~third-party returns for the same request.
C16_AliasGating ==
    Matched =>
        /\ Keys \cap {<<"third-party">>, <<"~", "third-party">>} = {}
        /\ match_results[1] = Rule_matches(parse_rule(Canonical(data[1])).rule, request_info)

\* the keys of the modifiers Rule.matches combines
NonGating == Keys \ GatingKeys

\* C17: whenever Rule.matches returns for a rule whose URL pattern matches,
\* none of whose domain, 3p and 1p modifiers yields NO_MATCH and that has
\* another modifier, it returns OVERRIDE if one of the other verdicts is
\* OVERRIDE, else MATCH if one of them is MATCH, else NO_MATCH.
C17_CombineNonGating ==
    (/\ Matched
     /\ Returned
     /\ NonGating # {}
     /\ \A k \in Keys \cap GatingKeys : ModVerdict(k) # "NO_MATCH") =>
        match_results[1] =
            (IF \E k \in NonGating : ModVerdict(k) = "OVERRIDE" THEN "OVERRIDE"
             ELSE IF \E k \in NonGating : ModVerdict(k) = "MATCH" THEN "MATCH"
             ELSE "NO_MATCH")

\* C17 witness: the rule a$script,image was matched against a Script request
\* of UrlA: script yields MATCH, image NO_MATCH, the rule returned MATCH.
C17_Witness ==
    /\ Matched
    /\ data = << <<"a", "$", "script", ",", "image">> >>
    /\ ModVerdict(<<"script">>) = "MATCH"
    /\ ModVerdict(<<"image">>) = "NO_MATCH"
    /\ match_results = <<"MATCH">>

\* the rule has modifiers, all of them under the keys domain, 3p, 1p, and
\* each of them yields MATCH
AllGatingPass ==
    /\ Matched
    /\ Keys # {}
    /\ Keys \subseteq GatingKeys
    /\ \A k \in Keys : ModVerdict(k) = "MATCH"

\* C18 as stated: a rule whose modifiers are all gating and all pass returns
\* NO_MATCH; MATCH without a non-gating verdict is returned only for a rule
\* without modifiers.
C18_AsStated ==
    /\ AllGatingPass => match_results[1] = "NO_MATCH"
    /\ (Matched /\ NonGating = {} /\ match_results[1] = "MATCH") => Keys = {}

\* C18, amended: a rule whose URL pattern matches, whose modifiers are all
\* gating and all pass returns MATCH, as a rule without modifiers does.
C18_AllGatingPass ==
    /\ AllGatingPass => match_results[1] = "MATCH"
    /\ (Matched /\ Keys = {}) => match_results[1] = "MATCH"

\* C18 witness: the rule a$3p was matched against a request of UrlA that is
\* not same-site and returned MATCH.
C18_Witness ==
    /\ AllGatingPass
    /\ data = << <<"a", "$", "3p">> >>
    /\ request_info.isSameSite = "False"
    /\ match_results = <<"MATCH">>

\* C19: Rule.matches returns a MatchResult for every rule parse accepted and
\* every request and never raises; a modifier without functional matching
\* logic yields NO_MATCH.
C19_MatchesTotal ==
    filter_pc = "evaluated" =>
        /\ \A i \in 1..Len(match_results) :
                match_results[i] \in {"MATCH", "NO_MATCH", "OVERRIDE", "IGNORE"}
        /\ ~eval_result.raised

\* the requests __create_report has analysed for the check, in order
Analysed(t) == [k \in 1..Len(tasks[t].log) |-> tasks[t].log[k].request_info]

\* the phases of a check: idle, capturing (the navigation), captured (page
\* closed), creating (__create_report in the executor), idle again when the
\* Report is returned; a navigation that raises ends the check
PhaseSteps ==
    { <<"idle", "capturing">>, <<"capturing", "captured">>, <<"captured", "creating">>,
      <<"creating", "idle">>, <<"capturing", "idle">> }

\* the check returns its Report in this step
ReportReturned(t) ==
    /\ tasks[t].phase = "creating"
    /\ tasks'[t].phase = "idle"
    /\ storage'[tasks[t].url] # storage[tasks[t].url]

\* C20: a check goes through its phases in order, none skipped; a request
\* is put on the check's queue only during the navigation and taken from it
\* only by __create_report, after the page is closed; every request captured
\* is analysed exactly once, in order, and the queue is empty when the Report
\* is returned.
C20_CheckPhases ==
    /\ [](\A t \in TaskIds :
            /\ tasks[t].phase \in {"capturing", "captured"} =>
                    tasks[t].queue = tasks[t].seen /\ tasks[t].log = <<>>
            /\ tasks[t].phase = "creating" => Analysed(t) \o tasks[t].queue = tasks[t].seen)
    /\ [][\A t \in TaskIds :
            /\ tasks'[t].phase # tasks[t].phase => <<tasks[t].phase, tasks'[t].phase>> \in PhaseSteps
            /\ Len(tasks'[t].queue) > Len(tasks[t].queue) =>
                    tasks[t].phase = "capturing" /\ tasks'[t].phase = "capturing"
            /\ (Len(tasks'[t].queue) < Len(tasks[t].queue) /\ tasks'[t].phase # "idle") =>
                    /\ tasks[t].phase = "creating" /\ tasks'[t].phase = "creating"
                    /\ tasks'[t].queue = Tail(tasks[t].queue)
            /\ ReportReturned(t) =>
                    /\ tasks[t].queue = <<>>
                    /\ Analysed(t) = tasks[t].seen
                    /\ storage'[tasks[t].url].value = tasks[t].report]_vars

\* C20 witness: a check of PageP captured two requests during its navigation
\* and __create_report has analysed both: the queue is empty and the Report
\* about to be returned has their two RequestReports.
C20_Witness ==
    \E t \in TaskIds :
        /\ tasks[t].phase = "creating"
        /\ tasks[t].url = PageP
        /\ Len(tasks[t].seen) = 2
        /\ Analysed(t) = tasks[t].seen
        /\ tasks[t].queue = <<>>
        /\ Len(tasks[t].report.results) = 2

\* the URLs the cache storage holds an entry for
Stored == {u \in DOMAIN storage : storage[u] # NoEntry}

NextUrl == message.check_urls[url_index]

\* the event loop is at line 124 for a URL whose check starts a navigation:
\* no refresh is in progress and there is no entry, or one that has expired
\* or reached its update point
AboutToCheck(url) ==
    /\ pc = "process"
    /\ url_index <= Len(message.check_urls)
    /\ NextUrl = url
    /\ ~is_being_updated(url)
    /\ \/ storage[url] = NoEntry
       \/ expired(storage[url])
       \/ update_reached(storage[url])
    /\ \E f \in TaskIds : tasks[f].phase = "idle"

\* C21: evaluation does not block navigations.  While a check is in
\* __create_report on the worker pool, the navigation of a check of another
\* URL can go on (page.goto can return with any of the page's events), and
\* the check of another URL the event loop is about to make can start its
\* navigation.
C21_EvaluationDoesNotBlock ==
    \A t \in TaskIds :
        (tasks[t].phase = "creating" /\ ~crashed) =>
            /\ \A u \in TaskIds :
                    (tasks[u].phase = "capturing" /\ tasks[u].url # tasks[t].url) =>
                        \A events \in PageEvents(tasks[u].url) : ENABLED GotoReturns(u, events)
            /\ \A url \in CheckUrls \ {tasks[t].url} :
                    AboutToCheck(url) =>
                        ENABLED (CheckLink /\ \E u \in TaskIds : /\ tasks'[u].phase = "capturing"
                                                                 /\ tasks'[u].url = url)

\* one check has requests left to evaluate while the check of another URL
\* is navigating
C21_Witness ==
    \E t, u \in TaskIds :
        /\ tasks[t].phase = "creating"
        /\ tasks[t].queue # <<>>
        /\ tasks[u].phase = "capturing"
        /\ tasks[u].url # tasks[t].url

\* ---- C22 ----

\* the lists RuleSetUpdater.start can put on rulesets_updated_queue
Deliveries ==
    { get_rulesets(texts) : texts \in {x \in FilterLists : ~join_raises(get_rulesets(x))} }

\* the entries of the log whose for statement has ended
Complete(t) ==
    { k \in 1..Len(tasks[t].log) : tasks[t].phase = "iterating" => k < Len(tasks[t].log) }

\* C22: ruleset refresh is a wholesale swap.  The active collection is None
\* before the first delivery is received and one delivered list afterwards;
\* it changes only by becoming the oldest delivery waiting on the queue, and
\* the queue changes only by losing that delivery or getting a new one at
\* its end, so deliveries become active in the order they were sent.  Each
\* request of a Report is evaluated against one delivered list as a whole:
\* what the for statement did for it is what the list it started with gives,
\* whatever was delivered in between.
C22_WholesaleSwap ==
    /\ [](/\ rulesets = <<>> \/ (Len(rulesets) = 1 /\ rulesets[1] \in Deliveries)
          /\ \A i \in 1..Len(rulesets_updated_queue) : rulesets_updated_queue[i] \in Deliveries
          /\ \A t \in TaskIds : \A k \in 1..Len(tasks[t].log) :
                /\ tasks[t].log[k].rulesets \in Deliveries
                /\ k \in Complete(t) =>
                        tasks[t].log[k].outcome =
                            for_ruleset(tasks[t].log[k].rulesets, tasks[t].log[k].request_info, 1, <<>>))
    /\ [][(rulesets' # rulesets \/ rulesets_updated_queue' # rulesets_updated_queue) =>
                \/ /\ rulesets_updated_queue # <<>>
                   /\ rulesets' = <<Head(rulesets_updated_queue)>>
                   /\ rulesets_updated_queue' = Tail(rulesets_updated_queue)
                \/ /\ rulesets' = rulesets
                   /\ \E new \in Deliveries :
                        rulesets_updated_queue' = Append(rulesets_updated_queue, new)]_vars

\* two requests of one Report evaluated against different deliveries, the
\* first against several RuleSets of its list
C22_Witness ==
    \E t \in TaskIds :
        /\ tasks[t].phase = "creating"
        /\ Len(tasks[t].log) = 2
        /\ tasks[t].log[1].rulesets # tasks[t].log[2].rulesets
        /\ tasks[t].log[1].outcome.evaluated > 1

====
